---------------------------- MODULE Spec2Model ----------------------------
(***************************************************************************)
(* A model of Beacon: the state-conditioned weight table, the two-step     *)
(* timeout tracker, the epoch-based adaptation coordinator, the protocol   *)
(* compiler, the traversal engine, the model state with its snapshots and  *)
(* the campaign manager.                                                   *)
(*                                                                         *)
(* Weights are f64 in the source.  They are modelled as exact rationals    *)
(* <<n, d>> in lowest terms with d > 0, so that multiplication, division   *)
(* and comparison are computed rather than assumed.                        *)
(***************************************************************************)
EXTENDS Integers, Sequences, FiniteSets, TLC

VARIABLES
    tracker,        \* a stand-alone TimeoutTracker
    calls,          \* history: the calls made on `tracker` and what they returned
    coordinator,    \* the Coordinator
    weight_table,   \* the WeightTable handed to the coordinator and the engine
    alt_blocks,     \* the alt_block_branches argument given to the coordinator
    arrived,        \* history: the feed_signal and flush calls made, in order
    processed,      \* history: what process_epoch mapped, in processing order
    applied,        \* history: the directives handed to apply_directive, in order
    retried,        \* history: actions whose scheduled retry has since succeeded
    graph,          \* the NdaGraph a pass walks
    engine,         \* the TraversalEngine of the current pass
    zeroed,         \* history: branches a PermanentZero directive was applied to
    decisions,      \* history: the Branch decisions of the pass, in order
    executions,     \* history: the executor calls of the pass and what each emitted
    model,          \* a ModelState
    snapshots,      \* history: the Snapshot tokens taken, each with the state it was taken at
    model_ops,      \* history: the operations performed on `model`, in order
    manager,        \* the CampaignManager
    compiling,      \* where each thread stands inside CampaignManager::compile
    requests,       \* history: the other requests served by the manager, in order
    compiled,       \* history: the last call of compile and what it returned
    analysed,       \* history: the last graph given to the reachability analysis and its directives
    pipeline,       \* the InputSpace and PipelineConfig of a run_pipeline call
    pipeline_result,\* history: what the run_pipeline call returned
    sandbox,        \* the WASM instance, the paired snapshot taken of it and the last restore
    campaign_result,       \* run_campaign: the result aggregated over the passes done so far
    campaign_memory,\* the CampaignMemory of one IR
    memory_history, \* history: the MemoryConfig in use, the weights and the count the memory started with, the calls of prepare_new_campaign
    normalize_call,     \* history: the table before the last normalize and the arguments of the call
    poller,         \* a client of the findings tool: the since_seqno it will pass, the seqnos it has received
    tool_calls,     \* the abort and fuzz_start calls in progress, one per thread, and the campaigns whose abort has returned
    vector_pool,    \* the VectorPool: the general queue, the target queues, the two counters
    pool_calls,     \* the pushes and pops in progress, one per thread, and history: the vectors whose push returned true or false, the vectors pops returned
    manager_locks,  \* the mutexes of a CampaignManager and the callers on them
    strategy_stack  \* a StrategyStack, with the result of its last pop

vars == <<tracker, calls, coordinator, weight_table, alt_blocks, arrived,
          processed, applied, retried, graph, engine, zeroed, decisions,
          executions, model, snapshots, model_ops, manager, compiling,
          requests, compiled,
          analysed,
          pipeline, pipeline_result,
          sandbox,
          campaign_result,
          campaign_memory, memory_history,
          normalize_call,
          poller, tool_calls,
          vector_pool, pool_calls,
          manager_locks,
          strategy_stack>>

trackerVars == <<tracker, calls>>
coordVars   == <<coordinator, alt_blocks, arrived, processed, applied, retried>>
engineVars  == <<graph, engine, zeroed, decisions, executions>>
modelVars   == <<model, snapshots, model_ops>>
exploreVars == <<trackerVars, coordVars, weight_table, engineVars>>
managerVars == <<manager, compiling, requests>>
pipelineVars == <<pipeline, pipeline_result>>
memoryVars == <<campaign_memory, memory_history>>
mcpVars == <<poller, tool_calls>>
poolVars == <<vector_pool, pool_calls>>
restVars    == <<modelVars, managerVars, compiled, analysed, pipelineVars, sandbox, campaign_result, memoryVars, normalize_call, mcpVars, poolVars, manager_locks, strategy_stack>>
notModelVars   == <<exploreVars, managerVars, compiled, analysed, pipelineVars, sandbox, campaign_result, memoryVars, normalize_call, mcpVars, poolVars, manager_locks, strategy_stack>>
notManagerVars == <<exploreVars, modelVars, compiled, analysed, pipelineVars, sandbox, campaign_result, memoryVars, normalize_call, mcpVars, poolVars, manager_locks, strategy_stack>>
notCompileVars == <<exploreVars, modelVars, managerVars, analysed, pipelineVars, sandbox, campaign_result, memoryVars, normalize_call, mcpVars, poolVars, manager_locks, strategy_stack>>
notReachVars == <<exploreVars, modelVars, managerVars, compiled, pipelineVars, sandbox, campaign_result, memoryVars, normalize_call, mcpVars, poolVars, manager_locks, strategy_stack>>
notPipelineVars == <<exploreVars, modelVars, managerVars, compiled, analysed, sandbox, campaign_result, memoryVars, normalize_call, mcpVars, poolVars, manager_locks, strategy_stack>>
notSandboxVars == <<exploreVars, modelVars, managerVars, compiled, analysed, pipelineVars, campaign_result, memoryVars, normalize_call, mcpVars, poolVars, manager_locks, strategy_stack>>
notCampaignVars == <<exploreVars, modelVars, managerVars, compiled, analysed, pipelineVars, sandbox, memoryVars, normalize_call, mcpVars, poolVars, manager_locks, strategy_stack>>
notMemoryVars == <<exploreVars, modelVars, managerVars, compiled, analysed, pipelineVars, sandbox, campaign_result, normalize_call, mcpVars, poolVars, manager_locks, strategy_stack>>
notNormalizeVars == <<exploreVars, modelVars, managerVars, compiled, analysed, pipelineVars, sandbox, campaign_result, memoryVars, mcpVars, poolVars, manager_locks, strategy_stack>>
notCampaignEngineVars == <<trackerVars, coordVars, weight_table, graph, zeroed, decisions, executions, modelVars, managerVars, compiled, analysed, pipelineVars, sandbox, memoryVars, normalize_call, mcpVars, poolVars, manager_locks, strategy_stack>>
notNormalizeTableVars == <<trackerVars, coordVars, engineVars, modelVars, managerVars, compiled, analysed, pipelineVars, sandbox, campaign_result, memoryVars, mcpVars, poolVars, manager_locks, strategy_stack>>
notMcpVars == <<exploreVars, modelVars, managerVars, compiled, analysed, pipelineVars, sandbox, campaign_result, memoryVars, normalize_call, poolVars, manager_locks, strategy_stack>>
notMcpManagerVars == <<compiling, requests, exploreVars, modelVars, compiled, analysed, pipelineVars, sandbox, campaign_result, memoryVars, normalize_call, poolVars, manager_locks, strategy_stack>>
notPoolVars == <<exploreVars, modelVars, managerVars, compiled, analysed, pipelineVars, sandbox, campaign_result, memoryVars, normalize_call, mcpVars, manager_locks, strategy_stack>>
notLockingVars == <<exploreVars, modelVars, managerVars, compiled, analysed, pipelineVars, sandbox, campaign_result, memoryVars, normalize_call, mcpVars, poolVars, strategy_stack>>
notStrategyVars == <<exploreVars, modelVars, managerVars, compiled, analysed, pipelineVars, sandbox, campaign_result, memoryVars, normalize_call, mcpVars, poolVars, manager_locks>>

-----------------------------------------------------------------------------
(* Bounds of the model.                                                    *)

MaxCalls == 4
MaxSignals == 3
MaxEpochSize == 2
MaxSteps == 3
MaxStack == 8
MaxModelOps == 4
MaxCompiles == 9
MaxRequests == 2
MaxRequestId == 1
MaxWeight == 1
MaxRepeat == 2
MaxVectors == 1
MaxPages == 2
MaxFuel == 2
MaxGeneration == 1
MaxPasses == 2
MaxSkipBudget == 2
MaxSkipCalls == 7
MaxPrepares == 3
MaxNonReproductions == 3
MaxCapsules == 2
MaxBranches == 3
MaxFindings == 3
MaxPolls == 4
MaxToolCalls == 2
MaxPoolVectors == 3
MaxCapacity == 2
MaxDepthLimit == 4

-----------------------------------------------------------------------------
(* Exact rational arithmetic for the f64 weights.                          *)

RECURSIVE GCD(_, _)
GCD(a, b) == IF b = 0 THEN a ELSE GCD(b, a % b)

Abs(n) == IF n < 0 THEN -n ELSE n

Q(n, d) ==
    LET g == GCD(Abs(n), Abs(d))
        s == IF d < 0 THEN -1 ELSE 1
    IN  <<(s * n) \div g, (s * d) \div g>>

QZero == <<0, 1>>
QOne == <<1, 1>>
\* Common factors are cancelled before the products are formed, which keeps
\* the intermediate values small.
QMul(x, y) ==
    LET g1 == GCD(Abs(x[1]), y[2])
        g2 == GCD(Abs(y[1]), x[2])
        d1 == IF g1 = 0 THEN 1 ELSE g1
        d2 == IF g2 = 0 THEN 1 ELSE g2
    IN  Q((x[1] \div d1) * (y[1] \div d2), (x[2] \div d2) * (y[2] \div d1))
QDiv(x, y) == QMul(x, Q(y[2], y[1]))
QAdd(x, y) ==
    LET g == GCD(x[2], y[2])
    IN  Q(x[1] * (y[2] \div g) + y[1] * (x[2] \div g), (x[2] \div g) * y[2])
QSub(x, y) == QAdd(x, <<-y[1], y[2]>>)
QLt(x, y) ==
    LET g == GCD(x[2], y[2]) IN x[1] * (y[2] \div g) < y[1] * (x[2] \div g)
QLe(x, y) ==
    LET g == GCD(x[2], y[2]) IN x[1] * (y[2] \div g) <= y[1] * (x[2] \div g)
QMax(x, y) == IF QLt(x, y) THEN y ELSE x

RECURSIVE QSum(_)
QSum(s) == IF s = <<>> THEN QZero ELSE QAdd(Head(s), QSum(Tail(s)))

-----------------------------------------------------------------------------
(* WeightTable: weights is the map (branch_id, model_state_hash) -> weight *)
(* (a function whose domain is the set of keys present), defaults the map  *)
(* branch_id -> default weight.                                            *)

NewWeightTable == [weights |-> <<>>, defaults |-> <<>>]

set_default(wt, branch_id, weight) ==
    [wt EXCEPT !.defaults =
        [b \in DOMAIN wt.defaults \cup {branch_id} |->
            IF b = branch_id THEN weight ELSE wt.defaults[b]]]

get(wt, branch_id, model_state_hash) ==
    IF <<branch_id, model_state_hash>> \in DOMAIN wt.weights
    THEN wt.weights[<<branch_id, model_state_hash>>]
    ELSE IF branch_id \in DOMAIN wt.defaults
         THEN wt.defaults[branch_id]
         ELSE QOne

set(wt, branch_id, model_state_hash, weight) ==
    [wt EXCEPT !.weights =
        [k \in DOMAIN wt.weights \cup {<<branch_id, model_state_hash>>} |->
            IF k = <<branch_id, model_state_hash>> THEN weight ELSE wt.weights[k]]]

adjust(wt, branch_id, model_state_hash, multiplier) ==
    set(wt, branch_id, model_state_hash,
        QMul(get(wt, branch_id, model_state_hash), multiplier))

RECURSIVE normalize_each(_, _, _, _)
normalize_each(wt, branch_ids, model_state_hash, total) ==
    IF branch_ids = <<>> THEN wt
    ELSE LET id == Head(branch_ids)
             current == get(wt, id, model_state_hash)
         IN  normalize_each(
                 set(wt, id, model_state_hash, QMul(QDiv(current, total), <<100, 1>>)),
                 Tail(branch_ids), model_state_hash, total)

\* normalize that rescales the first of the branches only
normalize_first(wt, branch_ids, model_state_hash) ==
    LET total == QSum([i \in 1..Len(branch_ids) |->
                          get(wt, branch_ids[i], model_state_hash)])
    IN  IF QLe(total, QZero) THEN wt
        ELSE normalize_each(wt, SubSeq(branch_ids, 1, 1), model_state_hash, total)

normalize(wt, branch_ids, model_state_hash) ==
    LET total == QSum([i \in 1..Len(branch_ids) |->
                          get(wt, branch_ids[i], model_state_hash)])
    IN  IF QLe(total, QZero) THEN wt
        ELSE normalize_each(wt, branch_ids, model_state_hash, total)

decay_all(wt, factor) ==
    [wt EXCEPT !.weights = [k \in DOMAIN wt.weights |-> QMul(wt.weights[k], factor)]]

\* clamp_min is called by apply_epoch_decay but its body is not among the
\* sources; it is taken from the specification: strictly positive weights
\* below the minimum are raised to it, exact zero is preserved.
clamp_min(wt, min_weight) ==
    [wt EXCEPT !.weights =
        [k \in DOMAIN wt.weights |->
            IF QLt(QZero, wt.weights[k]) /\ QLt(wt.weights[k], min_weight)
            THEN min_weight ELSE wt.weights[k]]]

-----------------------------------------------------------------------------
(* decay.rs                                                                *)

DefaultDecayConfig == [global_decay |-> Q(95, 100), min_weight |-> Q(1, 10)]

apply_epoch_decay(wt, config) ==
    clamp_min(decay_all(wt, config.global_decay), config.min_weight)

RECURSIVE adjust_each(_, _, _)
adjust_each(wt, branches, boost) ==
    IF branches = <<>> THEN wt
    ELSE adjust_each(adjust(wt, Head(branches), 0, boost), Tail(branches), boost)

RECURSIVE set_each(_, _, _)
set_each(wt, branches, weight) ==
    IF branches = <<>> THEN wt
    ELSE set_each(set(wt, Head(branches), 0, weight), Tail(branches), weight)

enforce_coverage_floor(wt, uncovered_branches, threshold) ==
    IF uncovered_branches = <<>> \/ QLe(threshold, QZero) THEN wt
    ELSE LET uncovered_total ==
                 QSum([i \in 1..Len(uncovered_branches) |->
                          get(wt, uncovered_branches[i], 0)])
             total_budget == <<100, 1>>
             floor == QMul(threshold, total_budget)
         IN  IF QLt(uncovered_total, floor) /\ QLt(QZero, uncovered_total)
             THEN adjust_each(wt, uncovered_branches, QDiv(floor, uncovered_total))
             ELSE IF uncovered_total = QZero
                  THEN set_each(wt, uncovered_branches,
                                QDiv(floor, <<Len(uncovered_branches), 1>>))
                  ELSE wt

-----------------------------------------------------------------------------
(* Signals (signal.rs) and directives (directive.rs).  An Option or a Vec  *)
(* is a sequence: <<>> is None, <<x>> is Some(x).                          *)

CoverageDelta(node_id, action) ==
    [type |-> "CoverageDelta", node_id |-> node_id, action |-> action]
PropertyViolation(property) == [type |-> "PropertyViolation", property |-> property]
Discrepancy(action) == [type |-> "Discrepancy", action |-> action]
Crash(action, message) == [type |-> "Crash", action |-> action, message |-> message]
Timeout(action, fuel_consumed) ==
    [type |-> "Timeout", action |-> action, fuel_consumed |-> fuel_consumed]
GuardFailure(branch_id, action) ==
    [type |-> "GuardFailure", branch_id |-> branch_id, action |-> action]
CoveragePlateau == [type |-> "CoveragePlateau"]

SignalEvent(thread_id, local_step, signal_type) ==
    [thread_id |-> thread_id, local_step |-> local_step, signal_type |-> signal_type]

AdjustWeight(branch_id, model_state_hash, multiplier) ==
    [type |-> "AdjustWeight", branch_id |-> branch_id,
     model_state_hash |-> model_state_hash, multiplier |-> multiplier]
Force(action, budget) == [type |-> "Force", action |-> action, budget |-> budget]
Skip(branch_id, model_state_hash, remaining) ==
    [type |-> "Skip", branch_id |-> branch_id,
     model_state_hash |-> model_state_hash, remaining |-> remaining]
PermanentZero(branch_id) == [type |-> "PermanentZero", branch_id |-> branch_id]

NewDirectiveLog == [entries |-> <<>>, next_seqno |-> 0]

\* record with the counter left where it was.
record_stale(log, directive, triggered_by, epoch) ==
    [entries |-> Append(log.entries,
                        [directive |-> directive, triggered_by |-> triggered_by,
                         epoch |-> epoch, seqno |-> log.next_seqno]),
     next_seqno |-> log.next_seqno]

record(log, directive, triggered_by, epoch) ==
    [entries |-> Append(log.entries,
                        [directive |-> directive, triggered_by |-> triggered_by,
                         epoch |-> epoch, seqno |-> log.next_seqno]),
     next_seqno |-> log.next_seqno + 1]

-----------------------------------------------------------------------------
(* timeout.rs: the two-step timeout tracker.  states maps an action to its *)
(* TimeoutState; an action outside its domain has no tracked state.        *)

default_skip_budget == 50
DefaultReducedFuel == 500000

RetryScheduled(reduced_fuel) == [kind |-> "RetryScheduled", reduced_fuel |-> reduced_fuel]
PermanentSkip(skip_remaining) == [kind |-> "PermanentSkip", skip_remaining |-> skip_remaining]

NewTimeoutTracker == [states |-> <<>>, default_skip_budget |-> default_skip_budget]

insert(states, action, st) ==
    [a \in DOMAIN states \cup {action} |-> IF a = action THEN st ELSE states[a]]

remove(states, action) == [a \in DOMAIN states \ {action} |-> states[a]]

\* handle_timeout without the retry step: the first timeout already skips.
handle_timeout_eager(t, action, fuel_consumed) ==
    IF action \notin DOMAIN t.states \/ t.states[action].kind = "RetryScheduled"
    THEN [tracker |-> [t EXCEPT !.states =
                          insert(t.states, action, PermanentSkip(t.default_skip_budget))],
          directive |-> <<Skip(action, 0, t.default_skip_budget)>>]
    ELSE [tracker |-> [t EXCEPT !.states = remove(t.states, action)],
          directive |-> <<>>]

\* Returns the tracker after the call and the Option<Directive> it returns.
handle_timeout(t, action, fuel_consumed) ==
    IF action \notin DOMAIN t.states
    THEN LET reduced == IF fuel_consumed = <<>> THEN DefaultReducedFuel
                        ELSE fuel_consumed[1] \div 2
         IN  [tracker |-> [t EXCEPT !.states = insert(t.states, action, RetryScheduled(reduced))],
              directive |-> <<>>]
    ELSE IF t.states[action].kind = "RetryScheduled"
    THEN [tracker |-> [t EXCEPT !.states =
                          insert(t.states, action, PermanentSkip(t.default_skip_budget))],
          directive |-> <<Skip(action, 0, t.default_skip_budget)>>]
    ELSE LET skip_remaining == t.states[action].skip_remaining
         IN  IF skip_remaining > 0
             THEN [tracker |-> [t EXCEPT !.states =
                                   insert(t.states, action, PermanentSkip(skip_remaining - 1))],
                   directive |-> <<>>]
             ELSE [tracker |-> [t EXCEPT !.states = remove(t.states, action)],
                   directive |-> <<>>]

report_retry_success(t, action) == [t EXCEPT !.states = remove(t.states, action)]

needs_retry(t, action) ==
    IF action \in DOMAIN t.states /\ t.states[action].kind = "RetryScheduled"
    THEN <<t.states[action].reduced_fuel>> ELSE <<>>

is_skipped(t, action) ==
    action \in DOMAIN t.states /\ t.states[action].kind = "PermanentSkip"

-----------------------------------------------------------------------------
(* coordinator.rs                                                          *)

force_budget == 10

DefaultCoordinatorConfig ==
    [epoch_size |-> 100,
     coverage_boost |-> Q(3, 2),
     guard_failure_decay |-> Q(1, 2),
     finding_boost |-> Q(2, 1),
     force_budget |-> force_budget,
     coverage_floor_threshold |-> Q(5, 100),
     decay |-> DefaultDecayConfig]

NewCoordinator(config) ==
    [config |-> config,
     epoch |-> 0,
     pending_signals |-> <<>>,
     directive_log |-> NewDirectiveLog,
     timeout_tracker |-> NewTimeoutTracker,
     signal_seqno |-> 0,
     uncovered_target_branches |-> <<>>]

set_uncovered_target_branches(c, branches) ==
    [c EXCEPT !.uncovered_target_branches = branches]

\* a precedes b in the order of sort_by: thread_id, then local_step.
KeyLess(a, b) ==
    \/ a.thread_id < b.thread_id
    \/ a.thread_id = b.thread_id /\ a.local_step < b.local_step

\* sort_by is a stable sort: events with equal keys keep their arrival order.
RECURSIVE InsertStable(_, _)
InsertStable(sorted, ev) ==
    IF sorted = <<>> THEN <<ev>>
    ELSE IF KeyLess(ev, sorted[Len(sorted)])
         THEN Append(InsertStable(SubSeq(sorted, 1, Len(sorted) - 1), ev),
                     sorted[Len(sorted)])
         ELSE Append(sorted, ev)

\* process_epoch without its sort: the signals stay in arrival order.
SortSignals_arrival(signals) == signals

RECURSIVE SortSignals(_)
SortSignals(signals) ==
    IF signals = <<>> THEN <<>>
    ELSE InsertStable(SortSignals(SubSeq(signals, 1, Len(signals) - 1)),
                      signals[Len(signals)])

\* Returns the coordinator (its timeout tracker may change) and the directives.
map_signal_to_directives(c, signal) ==
    CASE signal.type = "CoverageDelta" ->
            [coordinator |-> c,
             directives |-> <<AdjustWeight(signal.action, 0, c.config.coverage_boost)>>]
      [] signal.type = "PropertyViolation" ->
            [coordinator |-> c,
             directives |-> <<Force(signal.property, c.config.force_budget)>>]
      [] signal.type = "Discrepancy" ->
            [coordinator |-> c,
             directives |-> <<Force(signal.action, c.config.force_budget)>>]
      [] signal.type = "Crash" ->
            [coordinator |-> c,
             directives |-> <<Force(signal.action, c.config.force_budget * 2),
                              AdjustWeight(signal.action, 0, c.config.finding_boost)>>]
      [] signal.type = "Timeout" ->
            LET r == handle_timeout(c.timeout_tracker, signal.action, signal.fuel_consumed)
            IN  [coordinator |-> [c EXCEPT !.timeout_tracker = r.tracker],
                 directives |-> r.directive]
      [] signal.type = "GuardFailure" ->
            LET bid == IF signal.branch_id = "" THEN signal.action ELSE signal.branch_id
            IN  [coordinator |-> c,
                 directives |-> <<AdjustWeight(bid, 0, c.config.guard_failure_decay)>>]
      [] signal.type = "CoveragePlateau" ->
            [coordinator |-> c,
             directives |-> [i \in 1..Len(c.uncovered_target_branches) |->
                                Force(c.uncovered_target_branches[i], c.config.force_budget)]]

apply_directive(wt, directive) ==
    CASE directive.type = "AdjustWeight" ->
            adjust(wt, directive.branch_id, directive.model_state_hash, directive.multiplier)
      [] directive.type = "PermanentZero" -> set(wt, directive.branch_id, 0, QZero)
      [] directive.type = "Skip" ->
            set(wt, directive.branch_id, directive.model_state_hash, Q(1, 100))
      [] OTHER -> wt

RECURSIVE record_each(_, _, _, _)
record_each(log, new_directives, triggered_by, epoch) ==
    IF new_directives = <<>> THEN log
    ELSE record_each(record(log, Head(new_directives), triggered_by, epoch),
                     Tail(new_directives), triggered_by, epoch)

\* Step 3 of process_epoch: the loop over the sorted signals.  mapped lists each
\* signal with the directives it produced, in the order of the loop.
RECURSIVE map_signals(_, _, _, _)
map_signals(c, signals, directives, mapped) ==
    IF signals = <<>>
    THEN [coordinator |-> c, directives |-> directives, mapped |-> mapped]
    ELSE LET signal == Head(signals)
             r == map_signal_to_directives(c, signal.signal_type)
             logged == [r.coordinator EXCEPT !.directive_log =
                           record_each(r.coordinator.directive_log, r.directives,
                                       signal.signal_type, c.epoch)]
         IN  map_signals(logged, Tail(signals), directives \o r.directives,
                         Append(mapped, [ev |-> signal, epoch |-> c.epoch,
                                         directives |-> r.directives]))

RECURSIVE normalize_blocks(_, _)
normalize_blocks(wt, alt_block_branches) ==
    IF alt_block_branches = <<>> THEN wt
    ELSE normalize_blocks(normalize(wt, Head(alt_block_branches), 0),
                          Tail(alt_block_branches))

\* Step 7 of process_epoch: the loop over the directives.  applied lists the
\* directives in the order in which apply_directive received them.
RECURSIVE apply_directives(_, _, _)
apply_directives(wt, directives, done) ==
    IF directives = <<>> THEN [weight_table |-> wt, applied |-> done]
    ELSE apply_directives(apply_directive(wt, Head(directives)), Tail(directives),
                          Append(done, Head(directives)))

process_epoch(c, wt, alt_block_branches) ==
    LET signals == SortSignals(c.pending_signals)
        taken == [c EXCEPT !.pending_signals = <<>>,
                           !.signal_seqno = c.signal_seqno + Len(signals)]
        m == map_signals(taken, signals, <<>>, <<>>)
        decayed == apply_epoch_decay(wt, c.config.decay)
        normalized == normalize_blocks(decayed, alt_block_branches)
        floored == enforce_coverage_floor(normalized, c.uncovered_target_branches,
                                          c.config.coverage_floor_threshold)
        a == apply_directives(floored, m.directives, <<>>)
    IN  [coordinator |-> [m.coordinator EXCEPT !.epoch = c.epoch + 1],
         weight_table |-> a.weight_table,
         directives |-> m.directives,
         mapped |-> m.mapped,
         applied |-> a.applied]

NoEpoch(c, wt) ==
    [coordinator |-> c, weight_table |-> wt, directives |-> <<>>, mapped |-> <<>>,
     applied |-> <<>>]

feed_signal(c, wt, signal, alt_block_branches) ==
    LET pushed == [c EXCEPT !.pending_signals = Append(c.pending_signals, signal)]
    IN  IF Len(pushed.pending_signals) >= c.config.epoch_size
        THEN process_epoch(pushed, wt, alt_block_branches)
        ELSE NoEpoch(pushed, wt)

\* flush without its test for an empty buffer
flush_unconditional(c, wt, alt_block_branches) ==
    process_epoch(c, wt, alt_block_branches)

flush(c, wt, alt_block_branches) ==
    IF c.pending_signals = <<>> THEN NoEpoch(c, wt)
    ELSE process_epoch(c, wt, alt_block_branches)

-----------------------------------------------------------------------------
(* types.rs: the protocol tree of an IR.  graph.rs: the NDA graph.  A      *)
(* NodeId counts from 0, so the node with id n is nodes[n + 1].            *)

SeqNode(children) == [type |-> "seq", children |-> children]
AltNode(branches) == [type |-> "alt", branches |-> branches]
RepeatNode(min, max, body) == [type |-> "repeat", min |-> min, max |-> max, body |-> body]
CallNode(action) == [type |-> "call", action |-> action]
RefNode(protocol) == [type |-> "ref", protocol |-> protocol]
AltBranch(id, weight, guard, body) ==
    [id |-> id, weight |-> weight, guard |-> guard, body |-> body]

Terminal(action, guard) == [kind |-> "Terminal", action |-> action, guard |-> guard]
Branch(alternatives) == [kind |-> "Branch", alternatives |-> alternatives]
LoopEntry(body_start, min, max) ==
    [kind |-> "LoopEntry", body_start |-> body_start, min |-> min, max |-> max]
LoopExit == [kind |-> "LoopExit"]
Start == [kind |-> "Start"]
End == [kind |-> "End"]
BranchEdge(id, weight, target, guard) ==
    [id |-> id, weight |-> weight, target |-> target, guard |-> guard]

add_node(g, node) ==
    [graph |-> [g EXCEPT !.nodes = Append(@, node)], id |-> Len(g.nodes)]

add_edge(g, from, to) == [g EXCEPT !.edges = Append(@, <<from, to>>)]

NewGraph ==
    LET empty == [nodes |-> <<>>, edges |-> <<>>, entry |-> 0, exit |-> 0]
        start == add_node(empty, Start)
        end == add_node(start.graph, End)
    IN  [end.graph EXCEPT !.entry = start.id, !.exit = end.id]

NodeAt(g, node_id) == g.nodes[node_id + 1]

-----------------------------------------------------------------------------
(* validate.rs.  The errors of a pass over the IR form a set; the IR is    *)
(* valid when the set is empty.                                            *)

validate_entity_refs(ir) ==
    {[error |-> "DanglingEntityRef", refinement |-> name] :
        name \in {n \in DOMAIN ir.refinements : ir.refinements[n] \notin ir.entities}}

RECURSIVE collect_actions(_)
collect_actions(node) ==
    CASE node.type = "call" -> {node.action}
      [] node.type = "seq" ->
            UNION {collect_actions(node.children[i]) : i \in DOMAIN node.children}
      [] node.type = "alt" ->
            UNION {collect_actions(node.branches[i].body) : i \in DOMAIN node.branches}
      [] node.type = "repeat" -> collect_actions(node.body)
      [] node.type = "ref" -> {}

validate_protocol_actions(ir) ==
    LET actions == UNION {collect_actions(ir.protocols[p].root) : p \in DOMAIN ir.protocols}
    IN  {[error |-> "MissingEffect", action |-> a] : a \in actions \ DOMAIN ir.effects}
        \cup {[error |-> "MissingBinding", action |-> a] : a \in actions \ ir.bindings}

RECURSIVE collect_refs(_, _, _)
collect_refs(node, from, protocols) ==
    CASE node.type = "ref" ->
            IF node.protocol \notin DOMAIN protocols
            THEN {[error |-> "DanglingProtocolRef", from |-> from, target |-> node.protocol]}
            ELSE {}
      [] node.type = "seq" ->
            UNION {collect_refs(node.children[i], from, protocols) :
                      i \in DOMAIN node.children}
      [] node.type = "alt" ->
            UNION {collect_refs(node.branches[i].body, from, protocols) :
                      i \in DOMAIN node.branches}
      [] node.type = "repeat" -> collect_refs(node.body, from, protocols)
      [] node.type = "call" -> {}

RECURSIVE check_structure(_, _)
check_structure(node, proto_name) ==
    CASE node.type = "alt" ->
            (IF node.branches # <<>>
                /\ \A i \in DOMAIN node.branches : node.branches[i].weight = 0
             THEN {[error |-> "AllZeroWeights", location |-> proto_name]}
             ELSE {})
            \cup UNION {check_structure(node.branches[i].body, proto_name) :
                           i \in DOMAIN node.branches}
      [] node.type = "repeat" ->
            (IF node.min > node.max
             THEN {[error |-> "InvalidRepeatBounds", location |-> proto_name]}
             ELSE {})
            \cup check_structure(node.body, proto_name)
      [] node.type = "seq" ->
            UNION {check_structure(node.children[i], proto_name) :
                      i \in DOMAIN node.children}
      [] node.type \in {"call", "ref"} -> {}

\* The errors validate_ir returns; the empty set is Ok(()).
validate_ir(ir) ==
    validate_entity_refs(ir)
    \cup validate_protocol_actions(ir)
    \cup UNION {collect_refs(ir.protocols[p].root, p, ir.protocols) : p \in DOMAIN ir.protocols}
    \cup UNION {check_structure(ir.protocols[p].root, p) : p \in DOMAIN ir.protocols}

-----------------------------------------------------------------------------
(* protocol.rs: lowering a protocol tree to an NDA graph.  compile_node    *)
(* returns the graph after its insertions and the (entry, exit) pair.      *)

RECURSIVE compile_node(_, _, _)
RECURSIVE compile_seq(_, _, _, _, _)
RECURSIVE compile_alt(_, _, _, _, _)

\* The loop over the children of a seq.
compile_seq(children, all_protocols, g, first_entry, prev_exit) ==
    IF children = <<>>
    THEN [graph |-> g, entry |-> first_entry[1], exit |-> prev_exit[1]]
    ELSE LET r == compile_node(Head(children), all_protocols, g)
             linked == IF prev_exit # <<>>
                       THEN add_edge(r.graph, prev_exit[1], r.entry)
                       ELSE r.graph
         IN  compile_seq(Tail(children), all_protocols, linked,
                         IF first_entry = <<>> THEN <<r.entry>> ELSE first_entry,
                         <<r.exit>>)

\* The loop over the branches of an alt.
compile_alt(branches, all_protocols, g, join, alternatives) ==
    IF branches = <<>>
    THEN [graph |-> g, alternatives |-> alternatives]
    ELSE LET branch == Head(branches)
             r == compile_node(branch.body, all_protocols, g)
             joined == add_edge(r.graph, r.exit, join)
         IN  compile_alt(Tail(branches), all_protocols, joined, join,
                         Append(alternatives,
                                BranchEdge(branch.id, Q(branch.weight, 1), r.entry,
                                           branch.guard)))

compile_node(node, all_protocols, g) ==
    CASE node.type = "call" ->
            LET n == add_node(g, Terminal(node.action, <<>>))
            IN  [graph |-> n.graph, entry |-> n.id, exit |-> n.id]
      [] node.type = "seq" ->
            IF node.children = <<>>
            THEN LET n == add_node(g, Start)
                 IN  [graph |-> n.graph, entry |-> n.id, exit |-> n.id]
            ELSE compile_seq(node.children, all_protocols, g, <<>>, <<>>)
      [] node.type = "alt" ->
            LET join == add_node(g, Start)
                alts == compile_alt(node.branches, all_protocols, join.graph, join.id, <<>>)
                branch == add_node(alts.graph, Branch(alts.alternatives))
            IN  [graph |-> branch.graph, entry |-> branch.id, exit |-> join.id]
      [] node.type = "repeat" ->
            LET body == compile_node(node.body, all_protocols, g)
                loop_exit == add_node(body.graph, LoopExit)
                loop_entry == add_node(loop_exit.graph,
                                       LoopEntry(body.entry, node.min, node.max))
                g1 == add_edge(loop_entry.graph, loop_entry.id, body.entry)
                g2 == add_edge(g1, body.exit, loop_entry.id)
                g3 == add_edge(g2, loop_entry.id, loop_exit.id)
            IN  [graph |-> g3, entry |-> loop_entry.id, exit |-> loop_exit.id]
      [] node.type = "ref" ->
            compile_node(all_protocols[node.protocol].root, all_protocols, g)

compile_protocol(protocol, all_protocols) ==
    LET body == compile_node(protocol.root, all_protocols, NewGraph)
        g1 == add_edge(body.graph, body.graph.entry, body.entry)
    IN  add_edge(g1, body.exit, g1.exit)

-----------------------------------------------------------------------------
(* strategy.rs: PseudoRandomStrategy.  The draw of the generator is an     *)
(* input: unit is the value of gen::<f64>(), a number in [0, 1).           *)

RECURSIVE select_loop(_, _, _, _)
select_loop(branches, weights, i, roll) ==
    IF i > Len(branches)
    THEN [branch_index |-> Len(branches) - 1, branch_id |-> branches[Len(branches)].id,
          weight_used |-> weights[Len(branches)]]
    ELSE LET rest == QSub(roll, weights[i])
         IN  IF QLe(rest, QZero)
             THEN [branch_index |-> i - 1, branch_id |-> branches[i].id,
                   weight_used |-> weights[i]]
             ELSE select_loop(branches, weights, i + 1, rest)

select_branch(branches, model_state_hash, wt, unit) ==
    LET weights == [i \in 1..Len(branches) |->
                       QMax(get(wt, branches[i].id, model_state_hash), QZero)]
        total == QSum(weights)
    IN  IF QLe(total, QZero)
        THEN [branch_index |-> 0, branch_id |-> branches[1].id, weight_used |-> QZero]
        ELSE select_loop(branches, weights, 1, QMul(unit, total))

\* The iteration counts choose_iterations can return.
choose_iterations(min, max) == IF min = max THEN {min} ELSE min..max

-----------------------------------------------------------------------------
(* trace.rs and engine.rs.  The engine is a record of the fields of        *)
(* TraversalEngine, with the object stack of run_pass (its top is the last *)
(* element), the max_steps argument, the generation of the ModelState it   *)
(* borrows and status: "new" before run_pass is called, "running" inside   *)
(* its loop, "returned" once the TraversalResult is built, and "aborted"   *)
(* when the process ran out of memory growing its vectors.                 *)

NewTrace == [steps |-> <<>>, next_step |-> 0]

trace_record(trace, node_id, kind) ==
    [steps |-> Append(trace.steps,
                      [node_id |-> node_id, kind |-> kind, step_number |-> trace.next_step]),
     next_step |-> trace.next_step + 1]

NewEngine(generation) ==
    [trace |-> NewTrace, signals |-> <<>>, findings |-> <<>>,
     coverage |-> [action_counts |-> <<>>, branch_counts |-> <<>>],
     visited_nodes |-> {}, step_counter |-> 0, finding_counter |-> 0,
     actions_executed |-> 0, guards_failed |-> 0,
     model |-> [generation |-> generation],
     object_stack |-> <<>>, max_steps |-> 0, status |-> "new"]

record_step(e, node_id, kind) == [e EXCEPT !.trace = trace_record(@, node_id, kind)]

emit_signal(e, signal_type) ==
    [e EXCEPT !.signals = Append(@, SignalEvent(0, e.step_counter, signal_type))]

add_finding(e) ==
    [e EXCEPT !.findings =
                  Append(@, [id |-> e.finding_counter,
                             signal |-> e.signals[Len(e.signals)],
                             trace_indices |->
                                 <<IF Len(e.trace.steps) = 0 THEN 0
                                   ELSE Len(e.trace.steps) - 1>>,
                             model_generation |-> e.model.generation]),
              !.finding_counter = @ + 1]

\* The targets of the edges leaving node_id, in the order of graph.edges.
RECURSIVE successors(_, _)
successors(edges, node_id) ==
    IF edges = <<>> THEN <<>>
    ELSE (IF Head(edges)[1] = node_id THEN <<Head(edges)[2]>> ELSE <<>>)
         \o successors(Tail(edges), node_id)

push_successors(e, g, node_id) ==
    [e EXCEPT !.object_stack = @ \o successors(g.edges, node_id)]

push_loop_exit_successors(e, g, node_id) ==
    [e EXCEPT !.object_stack =
        @ \o SelectSeq(successors(g.edges, node_id),
                       LAMBDA to : NodeAt(g, to).kind = "LoopExit")]

\* entry(k).or_insert(0) += 1 on a HashMap of counts.
Incremented(counts, k) ==
    [x \in DOMAIN counts \cup {k} |->
        IF x = k THEN (IF k \in DOMAIN counts THEN counts[k] ELSE 0) + 1 ELSE counts[x]]

\* The head of one turn of the loop of run_pass: the node is popped and, the
\* budget not being exhausted, entered in visited_nodes.
Top(e) == e.object_stack[Len(e.object_stack)]

Popped(e) == [e EXCEPT !.object_stack = SubSeq(@, 1, Len(@) - 1)]

Entered(e) == [Popped(e) EXCEPT !.visited_nodes = @ \cup {Top(e)}]

\* The outcomes of ActionExecutor::execute: a normal return, a trap on fuel
\* exhaustion, a trap on anything else, a trap that carries no error message.
Outcomes ==
    {[trapped |-> FALSE, error |-> <<>>, fuel_consumed |-> <<>>],
     [trapped |-> TRUE, error |-> <<"all fuel consumed">>, fuel_consumed |-> <<100>>],
     [trapped |-> TRUE, error |-> <<"unreachable">>, fuel_consumed |-> <<>>],
     [trapped |-> TRUE, error |-> <<>>, fuel_consumed |-> <<>>]}

\* err.contains("Fuel") || err.contains("fuel")
MentionsFuel(err) == err \in {"all fuel consumed", "Fuel exhausted"}

RECURSIVE report_violations(_, _)
report_violations(e, violations) ==
    IF violations = <<>> THEN e
    ELSE report_violations(
             add_finding(emit_signal(e, PropertyViolation(Head(violations)))),
             Tail(violations))

\* The Terminal arm.  guard_passed is the value of the guard on the model,
\* outcome what the executor returns, violations the properties that
\* check_invariants reports; effects maps an action to the number of field
\* writes and instance creations of its effect, each of which advances the
\* generation of the model.
visit_terminal(e, g, effects, node_id, guard_passed, outcome, violations) ==
    LET action == NodeAt(g, node_id).action
        counted == [e EXCEPT !.step_counter = @ + 1]
    IN  IF ~guard_passed
        THEN push_successors(
                 emit_signal(
                     record_step([counted EXCEPT !.guards_failed = @ + 1], node_id,
                                 [type |-> "GuardFailed", action |-> action]),
                     GuardFailure("", action)),
                 g, node_id)
        ELSE LET trapped ==
                     IF outcome.trapped /\ outcome.error # <<>>
                     THEN IF MentionsFuel(outcome.error[1])
                          THEN emit_signal(counted, Timeout(action, outcome.fuel_consumed))
                          ELSE add_finding(
                                   emit_signal(counted, Crash(action, outcome.error[1])))
                     ELSE counted
                 effected == IF action \in DOMAIN effects
                             THEN [trapped EXCEPT !.model.generation = @ + effects[action]]
                             ELSE trapped
                 checked == report_violations(effected, violations)
                 covered == [checked EXCEPT
                                !.coverage.action_counts = Incremented(@, action),
                                !.actions_executed = @ + 1]
                 delta == IF covered.coverage.action_counts[action] = 1
                          THEN emit_signal(covered, CoverageDelta(node_id, action))
                          ELSE covered
             IN  push_successors(
                     record_step(delta, node_id,
                                 [type |-> "ActionExecuted", action |-> action,
                                  guard_passed |-> TRUE,
                                  fuel_consumed |-> outcome.fuel_consumed]),
                     g, node_id)

\* The Branch arm; decision is what select_branch returned.  e has the node
\* itself in visited_nodes already.
visit_branch(e, g, node_id, decision) ==
    LET alternatives == NodeAt(g, node_id).alternatives
        counted == [e EXCEPT !.coverage.branch_counts = Incremented(@, decision.branch_id)]
        traced == record_step(counted, node_id,
                              [type |-> "BranchSelected",
                               branch_id |-> decision.branch_id,
                               weight_used |-> decision.weight_used])
        target_node == alternatives[decision.branch_index + 1].target
        delta == IF target_node \notin traced.visited_nodes
                 THEN emit_signal(traced, CoverageDelta(target_node, decision.branch_id))
                 ELSE traced
    IN  [delta EXCEPT !.object_stack = Append(@, target_node)]

\* The LoopEntry arm; iterations is what choose_iterations returned.
visit_loop_entry(e, g, node_id, iterations) ==
    LET traced == record_step(e, node_id,
                              [type |-> "LoopEnter", iterations_chosen |-> iterations])
        exits == push_loop_exit_successors(traced, g, node_id)
    IN  [exits EXCEPT !.object_stack =
            @ \o [i \in 1..iterations |-> NodeAt(g, node_id).body_start]]

-----------------------------------------------------------------------------
(* state.rs: the copy-on-write ModelState.  instances maps an entity type  *)
(* to the sequence of its instances, each with its id and its field map.   *)
(* An Arc is shared until Arc::make_mut copies it for the writer, so a     *)
(* snapshot is a value of its own.                                         *)

InstanceId(entity_type, index) == [entity_type |-> entity_type, index |-> index]

NewEntityInstance(entity_type, id) ==
    [entity_type |-> entity_type, id |-> id, fields |-> <<>>]

NewModelState ==
    [instances |-> <<>>, trace |-> <<>>, generation |-> 0, next_instance_id |-> 0]

\* Returns the state after the call and the id it returns.
create_instance(state, entity_type) ==
    LET id == InstanceId(entity_type, state.next_instance_id)
        before == IF entity_type \in DOMAIN state.instances
                  THEN state.instances[entity_type] ELSE <<>>
        pushed == Append(before, NewEntityInstance(entity_type, id))
    IN  [state |-> [state EXCEPT
                       !.next_instance_id = @ + 1,
                       !.generation = @ + 1,
                       !.instances =
                           [t \in DOMAIN state.instances \cup {entity_type} |->
                               IF t = entity_type THEN pushed ELSE state.instances[t]]],
         id |-> id]

\* The index in instances of the first instance with this id, 0 if none.
FindInstance(instances, id) ==
    LET found == {i \in DOMAIN instances : instances[i].id = id}
    IN  IF found = {} THEN 0 ELSE CHOOSE i \in found : \A j \in found : i <= j

set_field(state, id, field, value) ==
    IF id.entity_type \notin DOMAIN state.instances THEN state
    ELSE LET instances == state.instances[id.entity_type]
             at == FindInstance(instances, id)
         IN  IF at = 0 THEN state
             ELSE [state EXCEPT
                      !.instances[id.entity_type][at].fields =
                          [f \in DOMAIN @ \cup {field} |->
                              IF f = field THEN value ELSE @[f]],
                      !.generation = @ + 1]

snapshot(state) ==
    [instances |-> state.instances, trace |-> state.trace,
     generation |-> state.generation, next_instance_id |-> state.next_instance_id]

\* rollback that leaves the instance counter where it is.
rollback_keep_counter(state, snap) ==
    [state EXCEPT !.instances = snap.instances,
                  !.trace = snap.trace,
                  !.generation = snap.generation]

rollback(state, snap) ==
    [state EXCEPT !.instances = snap.instances,
                  !.trace = snap.trace,
                  !.generation = snap.generation,
                  !.next_instance_id = snap.next_instance_id]

record_action(state, action, args) ==
    [state EXCEPT !.trace = Append(@, [action |-> action, args |-> args,
                                       generation |-> state.generation])]

-----------------------------------------------------------------------------
(* compile.rs: validation, then the lowering of every protocol.            *)
(* compile_expr has no failing arm, so the predicate and guard steps       *)
(* cannot return an error.  compile_node recurses into the root of a       *)
(* referenced protocol without remembering which protocols it is inside:   *)
(* on a chain of refs that returns to a protocol already being lowered     *)
(* the recursion never ends and the call overflows its stack.              *)

\* Whether compile_node recurses without end on `node`; `inside` holds the
\* protocols whose roots the recursion is currently lowering.
RECURSIVE unbounded_recursion(_, _, _)
unbounded_recursion(node, all_protocols, inside) ==
    CASE node.type = "call" -> FALSE
      [] node.type = "seq" ->
            \E i \in DOMAIN node.children :
                unbounded_recursion(node.children[i], all_protocols, inside)
      [] node.type = "alt" ->
            \E i \in DOMAIN node.branches :
                unbounded_recursion(node.branches[i].body, all_protocols, inside)
      [] node.type = "repeat" -> unbounded_recursion(node.body, all_protocols, inside)
      [] node.type = "ref" ->
            /\ node.protocol \in DOMAIN all_protocols
            /\ \/ node.protocol \in inside
               \/ unbounded_recursion(all_protocols[node.protocol].root, all_protocols,
                                      inside \cup {node.protocol})

\* result is "Ok", "Validation" or "StackOverflow"; graphs is the CompiledIR's
\* map of graphs when the result is Ok.
compile(ir) ==
    IF validate_ir(ir) # {}
    THEN [result |-> "Validation", graphs |-> <<>>]
    ELSE IF \E p \in DOMAIN ir.protocols :
                unbounded_recursion(ir.protocols[p].root, ir.protocols, {})
    THEN [result |-> "StackOverflow", graphs |-> <<>>]
    ELSE [result |-> "Ok",
          graphs |-> [p \in DOMAIN ir.protocols |->
                         compile_protocol(ir.protocols[p], ir.protocols)]]

-----------------------------------------------------------------------------
(* campaign.rs: the CampaignManager.  Campaign ids are the numbers behind  *)
(* "campaign-NNNN".  The coverage map, the budget and the compiled IR of a *)
(* campaign are left out: no operation below reads them.                   *)

max_concurrent_campaigns == 8

CampaignPhases == {"Compiled", "DutLoaded", "Running", "Complete", "Aborted"}

NewCampaignManager ==
    [campaigns |-> <<>>, findings |-> <<>>, analytics |-> <<>>, next_id |-> 1]

NewCampaignState(id) ==
    [id |-> id, phase |-> "Compiled", findings_count |-> 0, stop_reason |-> <<>>]

FindingRecord(seqno) == [seqno |-> seqno]

get_campaign(m, id) == IF id \in DOMAIN m.campaigns THEN <<m.campaigns[id]>> ELSE <<>>

set_analytics_state(m, id, phase) ==
    IF id \in DOMAIN m.analytics
    THEN [m EXCEPT !.analytics = [@ EXCEPT ![id] = phase]]
    ELSE m

set_phase(m, id, phase) ==
    IF id \notin DOMAIN m.campaigns
    THEN [manager |-> m, result |-> "NotFound"]
    ELSE [manager |-> set_analytics_state([m EXCEPT !.campaigns[id].phase = phase],
                                          id, phase),
          result |-> "Ok"]

manager_add_finding(m, campaign_id, finding) ==
    LET pushed == IF campaign_id \in DOMAIN m.findings
                  THEN [m EXCEPT !.findings[campaign_id] = Append(@, finding)]
                  ELSE m
    IN  IF campaign_id \in DOMAIN pushed.campaigns
        THEN [pushed EXCEPT !.campaigns[campaign_id].findings_count = @ + 1]
        ELSE pushed

abort(m, campaign_id) ==
    IF campaign_id \notin DOMAIN m.campaigns
    THEN [manager |-> m, result |-> "NotFound"]
    ELSE [manager |-> set_analytics_state(
                          [m EXCEPT !.campaigns[campaign_id].phase = "Aborted",
                                    !.campaigns[campaign_id].stop_reason =
                                        <<"UserAborted">>],
                          campaign_id, "Aborted"),
          result |-> "Ok"]

remove_campaign(m, campaign_id) ==
    [m EXCEPT !.campaigns = remove(@, campaign_id),
              !.findings = remove(@, campaign_id),
              !.analytics = remove(@, campaign_id)]

\* mcp.rs: the fuzz_start tool.
tool_beacon_fuzz_start(m, campaign_id) ==
    LET campaign == get_campaign(m, campaign_id)
    IN  IF campaign = <<>>
        THEN [manager |-> m, result |-> "tool_error: not found"]
        ELSE IF campaign[1].phase \notin {"Compiled", "DutLoaded"}
        THEN [manager |-> m, result |-> "tool_error: phase"]
        ELSE LET r == set_phase(m, campaign_id, "Running")
             IN  IF r.result # "Ok"
                 THEN [manager |-> r.manager, result |-> "tool_error: " \o r.result]
                 ELSE [manager |-> r.manager, result |-> "started"]

Threads == {1, 2}

Returned == [at |-> "returned"]

-----------------------------------------------------------------------------
(* reachability.rs: static reachability of the branches of an NDA graph.   *)

\* visited.insert(to); queue.push_back(to), when `to` is not yet visited.
bfs_visit(s, to) ==
    IF to \in s.visited THEN s
    ELSE [visited |-> s.visited \cup {to}, queue |-> Append(s.queue, to)]

RECURSIVE bfs_follow_edges(_, _, _)
bfs_follow_edges(s, edges, current) ==
    IF edges = <<>> THEN s
    ELSE bfs_follow_edges(IF Head(edges)[1] = current THEN bfs_visit(s, Head(edges)[2])
                                                      ELSE s,
                          Tail(edges), current)

RECURSIVE bfs_follow_targets(_, _)
bfs_follow_targets(s, alternatives) ==
    IF alternatives = <<>> THEN s
    ELSE bfs_follow_targets(bfs_visit(s, Head(alternatives).target), Tail(alternatives))

\* The while loop of bfs_reachable.
RECURSIVE bfs_loop(_, _)
bfs_loop(g, s) ==
    IF s.queue = <<>> THEN s.visited
    ELSE LET current == Head(s.queue)
             popped == [s EXCEPT !.queue = Tail(@)]
             by_edges == bfs_follow_edges(popped, g.edges, current)
             node == IF current + 1 \in DOMAIN g.nodes THEN <<g.nodes[current + 1]>>
                     ELSE <<>>
             by_targets == IF node # <<>> /\ node[1].kind = "Branch"
                           THEN bfs_follow_targets(by_edges, node[1].alternatives)
                           ELSE by_edges
             by_body == IF node # <<>> /\ node[1].kind = "LoopEntry"
                        THEN bfs_visit(by_targets, node[1].body_start)
                        ELSE by_targets
         IN  bfs_loop(g, by_body)

bfs_reachable(g, start) == bfs_loop(g, [visited |-> {start}, queue |-> <<start>>])

\* The loop over the alternatives of one Branch node.
RECURSIVE classify_alternatives(_, _, _, _)
classify_alternatives(r, alternatives, node_id, reachable_nodes) ==
    IF alternatives = <<>> THEN r
    ELSE LET alt == Head(alternatives)
         IN  classify_alternatives(
                 IF node_id \in reachable_nodes /\ alt.target \in reachable_nodes
                 THEN [r EXCEPT !.reachable = Append(@, alt.id)]
                 ELSE [r EXCEPT !.unreachable = Append(@, alt.id)],
                 Tail(alternatives), node_id, reachable_nodes)

\* The loop over the nodes, from index idx on.
RECURSIVE classify_nodes(_, _, _, _)
classify_nodes(r, g, idx, reachable_nodes) ==
    IF idx >= Len(g.nodes) THEN r
    ELSE classify_nodes(
             IF g.nodes[idx + 1].kind = "Branch"
             THEN classify_alternatives(r, g.nodes[idx + 1].alternatives, idx,
                                        reachable_nodes)
             ELSE r,
             g, idx + 1, reachable_nodes)

static_reachability(g) ==
    classify_nodes([unreachable |-> <<>>, reachable |-> <<>>], g, 0,
                   bfs_reachable(g, g.entry))

generate_unreachability_directives(g) ==
    LET result == static_reachability(g)
    IN  [i \in DOMAIN result.unreachable |-> PermanentZero(result.unreachable[i])]

-----------------------------------------------------------------------------
(* search.rs, fracture.rs and pipeline.rs: the fracture/solve/abort        *)
(* pipeline.  A SAT literal is [name, value, positive]: "domain `name`     *)
(* takes `value`", or its negation.  A clause is a sequence of literals    *)
(* and CnfClauses a sequence of clauses.  The structural exactly-one       *)
(* clauses are built into the assignments: each domain takes one value.    *)
(* The SAT solver is not in the sources; it is modelled by its contract,   *)
(* and the order in which it finds models is an input, `order`.            *)

Lit(name, value, positive) == [name |-> name, value |-> value, positive |-> positive]

\* Encoding::Bool has the values false and true, Encoding::OneHot its labels.
domain_values(encoding) ==
    IF encoding.kind = "Bool" THEN <<"false", "true">> ELSE encoding.variants

Assignments(encoded) ==
    LET values(n) == domain_values(encoded.domains[n])
    IN  {asg \in [DOMAIN encoded.domains ->
                    UNION {{values(n)[i] : i \in DOMAIN values(n)} :
                              n \in DOMAIN encoded.domains}] :
            \A n \in DOMAIN encoded.domains :
                \E i \in DOMAIN values(n) : asg[n] = values(n)[i]}

Satisfies(asg, clauses) ==
    \A c \in DOMAIN clauses :
        \E l \in DOMAIN clauses[c] :
            (asg[clauses[c][l].name] = clauses[c][l].value) = clauses[c][l].positive

\* What solver.solve() can return as a model after init_solver.
Models(encoded, constraint_clauses, extra_clauses) ==
    {asg \in Assignments(encoded) :
        Satisfies(asg, constraint_clauses) /\ Satisfies(asg, extra_clauses)}

is_sat(encoded, constraint_clauses, extra_clauses) ==
    Models(encoded, constraint_clauses, extra_clauses) # {}

RECURSIVE FirstModels(_, _, _)
FirstModels(order, models, limit) ==
    IF order = <<>> \/ limit = 0 THEN <<>>
    ELSE IF Head(order) \in models
         THEN <<Head(order)>> \o FirstModels(Tail(order), models, limit - 1)
         ELSE FirstModels(Tail(order), models, limit)

\* max_vectors = 0 is exhaustive.
find_many(encoded, constraint_clauses, extra_clauses, max_vectors, order) ==
    FirstModels(order, Models(encoded, constraint_clauses, extra_clauses),
                IF max_vectors = 0 THEN Len(order) ELSE max_vectors)

\* The literal as a one-literal clause.  No value handed over by
\* fracture_by_variable is missing from the domain: the None arm is not taken.
lit_for_value(encoding, name, value) ==
    IF encoding.kind = "Bool"
    THEN <<Lit(name, "true", value = "true")>>
    ELSE <<Lit(name, value, TRUE)>>

\* fracture_by_variable without its base clauses.
fracture_by_variable_alone(encoded, variable, base_fixed, base_clauses, base_stage_id) ==
    IF variable \notin DOMAIN encoded.domains
    THEN [err |-> TRUE, subspaces |-> <<>>]
    ELSE LET values == domain_values(encoded.domains[variable])
         IN  [err |-> FALSE,
              subspaces |->
                 [i \in DOMAIN values |->
                     [fixed |-> insert(base_fixed, variable, values[i]),
                      fixing_clauses |-> <<lit_for_value(encoded.domains[variable], variable, values[i])>>,
                      stage_id |-> base_stage_id * 1000 + (i - 1)]]]

fracture_by_variable(encoded, variable, base_fixed, base_clauses, base_stage_id) ==
    IF variable \notin DOMAIN encoded.domains
    THEN [err |-> TRUE, subspaces |-> <<>>]
    ELSE LET values == domain_values(encoded.domains[variable])
         IN  [err |-> FALSE,
              subspaces |->
                 [i \in DOMAIN values |->
                     [fixed |-> insert(base_fixed, variable, values[i]),
                      fixing_clauses |->
                         Append(base_clauses,
                                lit_for_value(encoded.domains[variable], variable, values[i])),
                      stage_id |-> base_stage_id * 1000 + (i - 1)]]]

\* p holds the arguments that stay the same through the recursion: encoded,
\* constraint_clauses, variables, max_vectors_per_leaf and the solver's order.
\* acc holds the three out-parameters and the error, if any.
RECURSIVE parallel_fracture_recursive(_, _, _, _, _, _)
RECURSIVE fracture_children(_, _, _, _)

parallel_fracture_recursive(p, depth, fixed, base_clauses, stage_id, acc) ==
    IF depth >= Len(p.variables)
    THEN IF is_sat(p.encoded, p.constraint_clauses, base_clauses)
         THEN [acc EXCEPT !.sat_count = @ + 1,
                          !.results = @ \o find_many(p.encoded, p.constraint_clauses,
                                                     base_clauses, p.max_vectors_per_leaf,
                                                     p.order)]
         ELSE [acc EXCEPT !.unsat_count = @ + 1]
    ELSE LET f == fracture_by_variable(p.encoded, p.variables[depth + 1], fixed,
                                       base_clauses, stage_id)
         IN  IF f.err THEN [acc EXCEPT !.err = TRUE]
             ELSE fracture_children(p, depth, f.subspaces, acc)

\* The loop over the SAT results of the children.
fracture_children(p, depth, subspaces, acc) ==
    IF subspaces = <<>> \/ acc.err THEN acc
    ELSE LET subspace == Head(subspaces)
         IN  fracture_children(
                 p, depth, Tail(subspaces),
                 IF ~is_sat(p.encoded, p.constraint_clauses, subspace.fixing_clauses)
                 THEN [acc EXCEPT !.unsat_count = @ + 1]
                 ELSE parallel_fracture_recursive(p, depth + 1, subspace.fixed,
                                                  subspace.fixing_clauses,
                                                  subspace.stage_id, acc))

\* all_vectors.retain(|v| seen.insert(v.clone()))
RECURSIVE Deduplicated(_, _)
Deduplicated(vectors, seen) ==
    IF vectors = <<>> THEN <<>>
    ELSE IF Head(vectors) \in seen THEN Deduplicated(Tail(vectors), seen)
         ELSE <<Head(vectors)>> \o Deduplicated(Tail(vectors), seen \cup {Head(vectors)})

run_pipeline(p) ==
    IF p.variables = <<>>
    THEN LET vectors == find_many(p.encoded, p.constraint_clauses, <<>>,
                                  p.max_vectors_per_leaf, p.order)
         IN  [err |-> FALSE, vectors |-> vectors,
              sat_count |-> IF vectors = <<>> THEN 0 ELSE 1,
              unsat_count |-> IF vectors = <<>> THEN 1 ELSE 0]
    ELSE LET r == parallel_fracture_recursive(
                      p, 0, <<>>, <<>>, 0,
                      [err |-> FALSE, results |-> <<>>, sat_count |-> 0, unsat_count |-> 0])
         IN  [err |-> r.err, vectors |-> Deduplicated(r.results, {}),
              sat_count |-> r.sat_count, unsat_count |-> r.unsat_count]

(***************************************************************************)
(* beacon-sandbox/sandbox.rs and fresnel-fir-sandbox/snapshot.rs: a WASM   *)
(* instance and its paired snapshot.  The memory is a sequence of pages    *)
(* (an Option: <<>> when the module exports no "memory"), the exported     *)
(* globals are records in export order, the fuel is an Option.  A memory   *)
(* grows up to the store's limit; an immutable global refuses set().       *)
(***************************************************************************)
Zeroes(n) == [i \in 1..n |-> 0]

\* Memory::grow under the store's resource limiter
grow(memory, pages_needed) ==
    IF Len(memory) + pages_needed > MaxPages
    THEN [err |-> TRUE, memory |-> memory]
    ELSE [err |-> FALSE, memory |-> memory \o Zeroes(pages_needed)]

capture_memory(instance) == instance.memory

capture_globals(instance) ==
    [i \in 1..Len(instance.globals) |->
        [name |-> instance.globals[i].name, value |-> instance.globals[i].value]]

PairedSnapshot(instance, model_generation) ==
    [model_generation |-> model_generation,
     wasm_memory      |-> capture_memory(instance),
     wasm_globals     |-> capture_globals(instance),
     fuel_remaining   |-> instance.fuel]

restore_memory(instance, data) ==
    IF instance.memory = <<>> THEN [err |-> FALSE, instance |-> instance]
    ELSE LET current == instance.memory[1]
             grown   == IF Len(data) > Len(current)
                        THEN grow(current, Len(data) - Len(current))
                        ELSE [err |-> FALSE, memory |-> current]
             copy_len == IF Len(data) < Len(grown.memory) THEN Len(data)
                         ELSE Len(grown.memory)
         IN  IF grown.err THEN [err |-> TRUE, instance |-> instance]
             ELSE [err |-> FALSE,
                   instance |-> [instance EXCEPT !.memory =
                       << [i \in 1..Len(grown.memory) |->
                              IF i <= copy_len THEN data[i] ELSE 0] >>]]

get_global(instance, name) ==
    {i \in 1..Len(instance.globals) : instance.globals[i].name = name}

RECURSIVE restore_globals(_, _, _)
restore_globals(instance, globals, i) ==
    IF i > Len(globals) THEN [err |-> FALSE, instance |-> instance]
    ELSE LET found == get_global(instance, globals[i].name)
         IN  IF found = {} THEN restore_globals(instance, globals, i + 1)
             ELSE LET k == CHOOSE k \in found : TRUE
                  IN  IF ~instance.globals[k].mutable
                      THEN [err |-> TRUE, instance |-> instance]
                      ELSE restore_globals(
                               [instance EXCEPT !.globals[k].value = globals[i].value],
                               globals, i + 1)

\* the instance left as the first failing step left it
restore(instance, snap) ==
    LET mem  == IF snap.wasm_memory = <<>> THEN [err |-> FALSE, instance |-> instance]
                ELSE restore_memory(instance, snap.wasm_memory[1])
        glob == restore_globals(mem.instance, snap.wasm_globals, 1)
    IN  IF mem.err THEN [err |-> TRUE, instance |-> mem.instance, generation |-> <<>>]
        ELSE IF glob.err THEN [err |-> TRUE, instance |-> glob.instance, generation |-> <<>>]
        ELSE [err |-> FALSE,
              instance |-> IF snap.fuel_remaining = <<>> THEN glob.instance
                           ELSE [glob.instance EXCEPT !.fuel = snap.fuel_remaining],
              generation |-> <<snap.model_generation>>]

(***************************************************************************)
(* fresnel-fir-core/memory.rs: the cross-campaign memory.  Capsules are    *)
(* kept by their trigger action, non_reproduction_counts is a function     *)
(* from capsule indices (from 0) to counts.                                *)
(***************************************************************************)
LearnedWeight(branch_id, model_state_hash, weight) ==
    [branch_id |-> branch_id, model_state_hash |-> model_state_hash, weight |-> weight]

MemoryConfig(cross_campaign_decay, aggressive_decay, invalidation_threshold) ==
    [cross_campaign_decay |-> cross_campaign_decay,
     aggressive_decay |-> aggressive_decay,
     invalidation_threshold |-> invalidation_threshold]

DefaultMemoryConfig == MemoryConfig(Q(4, 5), Q(1, 5), 3)

NewCampaignMemory ==
    [replay_capsules |-> <<>>, learned_weights |-> <<>>, hot_regions |-> <<>>,
     non_reproduction_counts |-> <<>>, campaign_count |-> 0]

add_capsule(mem, trigger_action) ==
    [mem EXCEPT !.replay_capsules = Append(@, [trigger_action |-> trigger_action])]

save_learned_weights(mem, weights) == [mem EXCEPT !.learned_weights = weights]

\* the aggressive decay of the weights of one trigger action
decay_trigger(weights, trigger, aggressive_decay) ==
    [i \in 1..Len(weights) |->
        IF weights[i].branch_id = trigger
        THEN [weights[i] EXCEPT !.weight = QMul(@, aggressive_decay)]
        ELSE weights[i]]

\* the loop over non_reproduction_counts, for the indices still to visit
RECURSIVE invalidate(_, _, _, _)
invalidate(mem, config, weights, indices) ==
    IF indices = {} THEN weights
    ELSE LET idx == CHOOSE i \in indices : TRUE
             hit == /\ mem.non_reproduction_counts[idx] >= config.invalidation_threshold
                    /\ idx < Len(mem.replay_capsules)
         IN  invalidate(mem, config,
                        IF hit
                        THEN decay_trigger(weights,
                                           mem.replay_capsules[idx + 1].trigger_action,
                                           config.aggressive_decay)
                        ELSE weights,
                        indices \ {idx})

\* prepare_new_campaign with the threshold test left out
prepare_new_campaign_any_count(mem, config) ==
    LET decayed == [i \in 1..Len(mem.learned_weights) |->
                       [mem.learned_weights[i] EXCEPT
                           !.weight = QMul(@, config.cross_campaign_decay)]]
    IN  [mem EXCEPT
            !.campaign_count = @ + 1,
            !.learned_weights =
                invalidate(mem, [config EXCEPT !.invalidation_threshold = 0], decayed,
                           DOMAIN mem.non_reproduction_counts)]

prepare_new_campaign(mem, config) ==
    LET decayed == [i \in 1..Len(mem.learned_weights) |->
                       [mem.learned_weights[i] EXCEPT
                           !.weight = QMul(@, config.cross_campaign_decay)]]
    IN  [mem EXCEPT
            !.campaign_count = @ + 1,
            !.learned_weights = invalidate(mem, config, decayed,
                                           DOMAIN mem.non_reproduction_counts),
            !.hot_regions = [i \in 1..Len(@) |->
                                [@[i] EXCEPT !.boost_factor =
                                    QMul(@, config.cross_campaign_decay)]]]

record_reproduction(mem, capsule_index) ==
    [mem EXCEPT !.non_reproduction_counts = remove(@, capsule_index)]

record_non_reproduction(mem, capsule_index) ==
    [mem EXCEPT !.non_reproduction_counts = Incremented(@, capsule_index)]

\* campaign.rs: get_findings; since_seqno is an Option.
get_findings(m, campaign_id, since_seqno) ==
    IF campaign_id \notin DOMAIN m.findings THEN <<>>
    ELSE IF since_seqno = <<>> THEN m.findings[campaign_id]
    ELSE SelectSeq(m.findings[campaign_id], LAMBDA f : f.seqno > since_seqno[1])

\* mcp.rs: the findings tool.
tool_beacon_findings(m, campaign_id, since_seqno) ==
    IF get_campaign(m, campaign_id) = <<>>
    THEN [result |-> "tool_error: not found", findings |-> <<>>, next_seqno |-> <<>>]
    ELSE LET findings == get_findings(m, campaign_id, since_seqno)
         IN  [result |-> "Ok",
              findings |-> findings,
              next_seqno |-> <<IF findings = <<>> THEN 0
                               ELSE findings[Len(findings)].seqno + 1>>]

(***************************************************************************)
(* fresnel-fir-explore/solver/pool.rs: the vector pool.  An ArrayQueue is  *)
(* a bounded sequence whose push and pop are atomic; the counters are      *)
(* atomics updated after the queue operation.                              *)
(***************************************************************************)
DEFAULT_QUEUE_CAPACITY == 256

NewVectorPool(general_capacity) ==
    [general |-> <<>>, general_capacity |-> general_capacity, targeted |-> <<>>,
     pushed |-> 0, popped |-> 0]

register_target(pool, target) ==
    IF target \in DOMAIN pool.targeted THEN pool
    ELSE [pool EXCEPT !.targeted = insert(@, target, <<>>)]

\* self.general.push(vector)
general_push(pool, vector) ==
    IF Len(pool.general) >= pool.general_capacity
    THEN [ok |-> FALSE, pool |-> pool]
    ELSE [ok |-> TRUE, pool |-> [pool EXCEPT !.general = Append(@, vector)]]

\* push_targeted up to its call of push_general: "pushed" when the target
\* queue took the vector, "general" when the call goes on to push_general
targeted_push(pool, target, vector) ==
    IF target \in DOMAIN pool.targeted /\ Len(pool.targeted[target]) < DEFAULT_QUEUE_CAPACITY
    THEN [to |-> "pushed", pool |-> [pool EXCEPT !.targeted[target] = Append(@, vector)]]
    ELSE [to |-> "general", pool |-> pool]

\* a pop that leaves the vector in the queue
general_peek(pool) ==
    IF pool.general = <<>> THEN [result |-> <<>>, pool |-> pool]
    ELSE [result |-> <<Head(pool.general)>>, pool |-> pool]

\* self.general.pop()
general_pop(pool) ==
    IF pool.general = <<>> THEN [result |-> <<>>, pool |-> pool]
    ELSE [result |-> <<Head(pool.general)>>, pool |-> [pool EXCEPT !.general = Tail(@)]]

\* pop_targeted up to its call of pop_general
targeted_pop(pool, target) ==
    IF target \in DOMAIN pool.targeted /\ pool.targeted[target] # <<>>
    THEN [result |-> <<Head(pool.targeted[target])>>,
          pool |-> [pool EXCEPT !.targeted[target] = Tail(@)]]
    ELSE [result |-> <<>>, pool |-> pool]

is_empty(pool) ==
    /\ pool.general = <<>>
    /\ \A target \in DOMAIN pool.targeted : pool.targeted[target] = <<>>

-----------------------------------------------------------------------------
(* The values the variables of a component hold while another component    *)
(* is the one being exercised.                                             *)

TrackerIdle == tracker = NewTimeoutTracker /\ calls = <<>>

CoordIdle ==
    /\ coordinator = NewCoordinator(DefaultCoordinatorConfig)
    /\ alt_blocks = <<>>
    /\ arrived = <<>>
    /\ processed = <<>>
    /\ applied = <<>>
    /\ retried = {}

EngineIdle ==
    graph = <<>> /\ engine = <<>> /\ zeroed = {} /\ decisions = <<>> /\ executions = <<>>

ModelIdle == model = NewModelState /\ snapshots = <<>> /\ model_ops = <<>>

ExploreIdle == TrackerIdle /\ CoordIdle /\ weight_table = NewWeightTable /\ EngineIdle

ManagerIdle ==
    /\ manager = NewCampaignManager
    /\ compiling = [t \in Threads |-> Returned]
    /\ requests = <<>>

CompileIdle == compiled = <<>>

ReachIdle == analysed = <<>>

PipelineIdle == pipeline = <<>> /\ pipeline_result = <<>>

SandboxIdle == sandbox = <<>>

CampaignIdle == campaign_result = <<>>

MemoryIdle == campaign_memory = <<>> /\ memory_history = <<>>

NormalizeIdle == normalize_call = <<>>

McpIdle == poller = <<>> /\ tool_calls = <<>>

PoolIdle == vector_pool = <<>> /\ pool_calls = <<>>

LockingIdle == manager_locks = <<>>

StrategyIdle == strategy_stack = <<>>

RestIdle == ModelIdle /\ ManagerIdle /\ CompileIdle /\ ReachIdle /\ PipelineIdle /\ SandboxIdle /\ CampaignIdle /\ MemoryIdle /\ NormalizeIdle /\ McpIdle /\ PoolIdle /\ LockingIdle /\ StrategyIdle

NotModelIdle == ExploreIdle /\ ManagerIdle /\ CompileIdle /\ ReachIdle /\ PipelineIdle /\ SandboxIdle /\ CampaignIdle /\ MemoryIdle /\ NormalizeIdle /\ McpIdle /\ PoolIdle /\ LockingIdle /\ StrategyIdle

NotManagerIdle == ExploreIdle /\ ModelIdle /\ CompileIdle /\ ReachIdle /\ PipelineIdle /\ SandboxIdle /\ CampaignIdle /\ MemoryIdle /\ NormalizeIdle /\ McpIdle /\ PoolIdle /\ LockingIdle /\ StrategyIdle

NotCompileIdle == ExploreIdle /\ ModelIdle /\ ManagerIdle /\ ReachIdle /\ PipelineIdle /\ SandboxIdle /\ CampaignIdle /\ MemoryIdle /\ NormalizeIdle /\ McpIdle /\ PoolIdle /\ LockingIdle /\ StrategyIdle

NotReachIdle == ExploreIdle /\ ModelIdle /\ ManagerIdle /\ CompileIdle /\ PipelineIdle /\ SandboxIdle /\ CampaignIdle /\ MemoryIdle /\ NormalizeIdle /\ McpIdle /\ PoolIdle /\ LockingIdle /\ StrategyIdle

NotPipelineIdle == ExploreIdle /\ ModelIdle /\ ManagerIdle /\ CompileIdle /\ ReachIdle /\ SandboxIdle /\ CampaignIdle /\ MemoryIdle /\ NormalizeIdle /\ McpIdle /\ PoolIdle /\ LockingIdle /\ StrategyIdle

NotSandboxIdle == ExploreIdle /\ ModelIdle /\ ManagerIdle /\ CompileIdle /\ ReachIdle /\ PipelineIdle /\ CampaignIdle /\ MemoryIdle /\ NormalizeIdle /\ McpIdle /\ PoolIdle /\ LockingIdle /\ StrategyIdle

NotCampaignIdle == ExploreIdle /\ ModelIdle /\ ManagerIdle /\ CompileIdle /\ ReachIdle /\ PipelineIdle /\ SandboxIdle /\ MemoryIdle /\ NormalizeIdle /\ McpIdle /\ PoolIdle /\ LockingIdle /\ StrategyIdle

NotMemoryIdle == ExploreIdle /\ ModelIdle /\ ManagerIdle /\ CompileIdle /\ ReachIdle /\ PipelineIdle /\ SandboxIdle /\ CampaignIdle /\ NormalizeIdle /\ McpIdle /\ PoolIdle /\ LockingIdle /\ StrategyIdle

NotNormalizeIdle == ExploreIdle /\ ModelIdle /\ ManagerIdle /\ CompileIdle /\ ReachIdle /\ PipelineIdle /\ SandboxIdle /\ CampaignIdle /\ MemoryIdle /\ McpIdle /\ PoolIdle /\ LockingIdle /\ StrategyIdle

NotCampaignEngineIdle == TrackerIdle /\ CoordIdle /\ ModelIdle /\ ManagerIdle /\ CompileIdle /\ ReachIdle /\ PipelineIdle /\ SandboxIdle /\ MemoryIdle /\ NormalizeIdle /\ McpIdle /\ PoolIdle /\ LockingIdle /\ StrategyIdle

NotNormalizeTableIdle == TrackerIdle /\ CoordIdle /\ EngineIdle /\ ModelIdle /\ ManagerIdle /\ CompileIdle /\ ReachIdle /\ PipelineIdle /\ SandboxIdle /\ CampaignIdle /\ MemoryIdle /\ McpIdle /\ PoolIdle /\ LockingIdle /\ StrategyIdle

NotMcpIdle == ExploreIdle /\ ModelIdle /\ ManagerIdle /\ CompileIdle /\ ReachIdle /\ PipelineIdle /\ SandboxIdle /\ CampaignIdle /\ MemoryIdle /\ NormalizeIdle /\ PoolIdle /\ LockingIdle /\ StrategyIdle

NotMcpManagerIdle == compiling = [t \in Threads |-> Returned] /\ requests = <<>> /\ ExploreIdle /\ ModelIdle /\ CompileIdle /\ ReachIdle /\ PipelineIdle /\ SandboxIdle /\ CampaignIdle /\ MemoryIdle /\ NormalizeIdle /\ PoolIdle /\ LockingIdle /\ StrategyIdle

NotPoolIdle == ExploreIdle /\ ModelIdle /\ ManagerIdle /\ CompileIdle /\ ReachIdle /\ PipelineIdle /\ SandboxIdle /\ CampaignIdle /\ MemoryIdle /\ NormalizeIdle /\ McpIdle /\ LockingIdle /\ StrategyIdle

NotLockingIdle == ExploreIdle /\ ModelIdle /\ ManagerIdle /\ CompileIdle /\ ReachIdle /\ PipelineIdle /\ SandboxIdle /\ CampaignIdle /\ MemoryIdle /\ NormalizeIdle /\ McpIdle /\ PoolIdle /\ StrategyIdle

NotStrategyIdle == ExploreIdle /\ ModelIdle /\ ManagerIdle /\ CompileIdle /\ ReachIdle /\ PipelineIdle /\ SandboxIdle /\ CampaignIdle /\ MemoryIdle /\ NormalizeIdle /\ McpIdle /\ PoolIdle /\ LockingIdle

ActionNames == {"a", "b"}

-----------------------------------------------------------------------------
(* The stand-alone timeout tracker, driven through its public operations.  *)

Fuels == {<<>>, <<100>>}

Call(op, action, directive) ==
    [op |-> op, action |-> action,
     untracked |-> needs_retry(tracker, action) = <<>> /\ ~is_skipped(tracker, action),
     directive |-> directive]

HandleTimeout(action, fuel_consumed) ==
    /\ Len(calls) < MaxCalls
    /\ LET r == handle_timeout(tracker, action, fuel_consumed)
       IN  /\ tracker' = r.tracker
           /\ calls' = Append(calls, Call("handle_timeout", action, r.directive))
    /\ UNCHANGED <<coordVars, weight_table, engineVars, restVars>>

ReportRetrySuccess(action) ==
    /\ Len(calls) < MaxCalls
    /\ tracker' = report_retry_success(tracker, action)
    /\ calls' = Append(calls, Call("report_retry_success", action, <<>>))
    /\ UNCHANGED <<coordVars, weight_table, engineVars, restVars>>

InitTracker ==
    /\ tracker = NewTimeoutTracker
    /\ calls = <<>>
    /\ CoordIdle
    /\ weight_table = NewWeightTable
    /\ EngineIdle
    /\ RestIdle

NextTracker ==
    \/ \E action \in ActionNames, fuel_consumed \in Fuels :
          HandleTimeout(action, fuel_consumed)
    \/ \E action \in ActionNames : ReportRetrySuccess(action)

SpecTracker == InitTracker /\ [][NextTracker]_vars

-----------------------------------------------------------------------------
(* The coordinator, fed signal events in any order.                        *)

Events ==
    { SignalEvent(0, 1, CoverageDelta(1, "a")),
      SignalEvent(0, 1, Crash("b", "trap")),
      SignalEvent(0, 2, GuardFailure("a", "x")),
      SignalEvent(0, 3, GuardFailure("", "b")),
      SignalEvent(1, 1, Timeout("a", <<100>>)),
      SignalEvent(1, 2, Timeout("a", <<>>)),
      SignalEvent(1, 1, CoveragePlateau),
      SignalEvent(1, 2, PropertyViolation("p")),
      SignalEvent(0, 2, Discrepancy("b")) }

\* A campaign's set-up: the registered uncovered-target branches, the weight
\* table at the start and the alt blocks whose weights are normalized.
Setups ==
    { [uncovered |-> <<>>, table |-> NewWeightTable, blocks |-> <<>>],
      [uncovered |-> <<"a">>,
       table |-> set_default(set_default(NewWeightTable, "a", Q(50, 1)), "b", Q(50, 1)),
       blocks |-> << <<"a", "b">> >>],
      [uncovered |-> <<"a", "b">>,
       table |-> set(set(NewWeightTable, "a", 0, Q(2, 1)), "b", 0, QZero),
       blocks |-> <<>>],
      [uncovered |-> <<"b">>,
       table |-> set(NewWeightTable, "b", 0, QZero),
       blocks |-> <<>>] }

IsTimeoutOn(ev, action) ==
    ev.signal_type.type = "Timeout" /\ ev.signal_type.action = action

\* The mapped signals of one epoch as history entries.  after_success marks a
\* Timeout that is the first on its action since that action's retry succeeded.
Processed(mapped) ==
    [k \in 1..Len(mapped) |->
        [ev |-> mapped[k].ev, epoch |-> mapped[k].epoch,
         directives |-> mapped[k].directives,
         after_success |->
            \E action \in retried :
                /\ IsTimeoutOn(mapped[k].ev, action)
                /\ \A j \in 1..(k - 1) : ~IsTimeoutOn(mapped[j].ev, action)]]

Observe(r) ==
    /\ coordinator' = r.coordinator
    /\ weight_table' = r.weight_table
    /\ processed' = processed \o Processed(r.mapped)
    /\ applied' = applied \o r.applied
    /\ retried' = {action \in retried :
                      \A k \in 1..Len(r.mapped) : ~IsTimeoutOn(r.mapped[k].ev, action)}

FeedSignal(signal) ==
    /\ Len(arrived) < MaxSignals
    /\ arrived' = Append(arrived, [call |-> "feed_signal", signal |-> signal])
    /\ Observe(feed_signal(coordinator, weight_table, signal, alt_blocks))
    /\ UNCHANGED <<restVars, trackerVars, alt_blocks, engineVars>>

Flush ==
    /\ Len(arrived) < MaxSignals
    /\ arrived' = Append(arrived, [call |-> "flush"])
    /\ Observe(flush(coordinator, weight_table, alt_blocks))
    /\ UNCHANGED <<restVars, trackerVars, alt_blocks, engineVars>>

\* The action whose retry the coordinator's tracker has scheduled completes
\* within its reduced fuel.  The Coordinator has no operation that passes this
\* on to its private timeout_tracker: its state is left as it is.
RetrySucceeds(action) ==
    /\ needs_retry(coordinator.timeout_tracker, action) # <<>>
    /\ action \notin retried
    /\ retried' = retried \cup {action}
    /\ UNCHANGED <<restVars, trackerVars, coordinator, weight_table, alt_blocks, arrived,
                   processed, applied, engineVars>>

InitCoord ==
    /\ TrackerIdle
    /\ \E epoch_size \in 1..MaxEpochSize, setup \in Setups :
          /\ coordinator =
                set_uncovered_target_branches(
                    NewCoordinator([DefaultCoordinatorConfig EXCEPT !.epoch_size = epoch_size]),
                    setup.uncovered)
          /\ weight_table = setup.table
          /\ alt_blocks = setup.blocks
    /\ arrived = <<>>
    /\ processed = <<>>
    /\ applied = <<>>
    /\ retried = {}
    /\ EngineIdle
    /\ RestIdle

NextCoord ==
    \/ \E signal \in Events : FeedSignal(signal)
    \/ Flush
    \/ \E action \in ActionNames : RetrySucceeds(action)

SpecCoord == InitCoord /\ [][NextCoord]_vars

-----------------------------------------------------------------------------
(* One pass of the traversal engine over a graph, compiled from a          *)
(* validated IR or built by hand as the engine's unit tests build theirs.  *)
(* PermanentZero directives reach the weight table before the pass: during *)
(* it the engine holds the table by exclusive borrow.                      *)

BranchIds == {"x", "y"}

\* The effect of a writes one field; the effect of b is empty.
Effects == [action \in ActionNames |-> IF action = "a" THEN 1 ELSE 0]

IR(protocols) ==
    [entities |-> {}, refinements |-> <<>>, protocols |-> protocols,
     effects |-> Effects, bindings |-> ActionNames]

Main(root) == [p \in {"main"} |-> [root |-> root]]

TwoWay(weight_x, weight_y) ==
    AltNode(<<AltBranch("x", weight_x, <<>>, CallNode("a")),
              AltBranch("y", weight_y, <<>>, CallNode("b"))>>)

IRs ==
    {IR(Main(SeqNode(<<CallNode("a"), CallNode("b")>>))),
     IR(Main(SeqNode(<<CallNode("a"), TwoWay(1, 1)>>))),
     IR(Main(TwoWay(0, 1))),
     IR(Main(TwoWay(0, 0))),
     IR(Main(RepeatNode(0, 1, CallNode("a")))),
     IR(Main(RepeatNode(1, 2, CallNode("a")))),
     IR(Main(RepeatNode(2, 1, CallNode("a")))),
     IR(Main(RepeatNode(1, 1, SeqNode(<<>>)))),
     IR(Main(RefNode("sub"))),
     IR([p \in {"main", "sub"} |->
            [root |-> IF p = "main" THEN RefNode("sub") ELSE CallNode("b")]])}

CompiledGraphs ==
    {compile_protocol(ir.protocols["main"], ir.protocols) :
        ir \in {i \in IRs : validate_ir(i) = {}}}

\* Start -> a (guarded) -> b -> End
GuardedGraph ==
    LET a == add_node(NewGraph, Terminal("a", <<"guard">>))
        b == add_node(a.graph, Terminal("b", <<>>))
        g1 == add_edge(b.graph, b.graph.entry, a.id)
        g2 == add_edge(g1, a.id, b.id)
    IN  add_edge(g2, b.id, g2.exit)

\* Start -> Loop(body = a, min = max = 2) -> End, with no back-edge.
FixedLoopGraph ==
    LET action == add_node(NewGraph, Terminal("a", <<>>))
        loop_exit == add_node(action.graph, LoopExit)
        loop_entry == add_node(loop_exit.graph, LoopEntry(action.id, 2, 2))
        g1 == add_edge(loop_entry.graph, loop_entry.graph.entry, loop_entry.id)
        g2 == add_edge(g1, loop_entry.id, loop_exit.id)
    IN  add_edge(g2, loop_exit.id, g2.exit)

Graphs == CompiledGraphs \cup {GuardedGraph, FixedLoopGraph}

\* gen::<f64>() draws from [0, 1).
Units == {Q(0, 1), Q(1, 2), Q(3, 4)}

Visiting(kind) ==
    /\ engine.status = "running"
    /\ engine.object_stack # <<>>
    /\ engine.step_counter < engine.max_steps
    /\ NodeAt(graph, Top(engine)).kind = kind

\* A push the memory cannot hold ends the process.
Grown(e) ==
    IF Len(e.object_stack) > MaxStack THEN [e EXCEPT !.status = "aborted"] ELSE e

ApplyPermanentZero(branch_id) ==
    /\ engine.status = "new"
    /\ branch_id \notin zeroed
    /\ weight_table' = apply_directive(weight_table, PermanentZero(branch_id))
    /\ zeroed' = zeroed \cup {branch_id}
    /\ UNCHANGED <<restVars, trackerVars, coordVars, graph, engine, decisions, executions>>

RunPass(max_steps) ==
    /\ engine.status = "new"
    /\ engine' = [engine EXCEPT !.object_stack = <<graph.entry>>,
                                !.max_steps = max_steps,
                                !.status = "running"]
    /\ UNCHANGED <<restVars, trackerVars, coordVars, weight_table, graph, zeroed, decisions,
                   executions>>

VisitStart ==
    /\ Visiting("Start")
    /\ LET node_id == Top(engine)
       IN  engine' = Grown(push_successors(
                               record_step(Entered(engine), node_id, [type |-> "Start"]),
                               graph, node_id))
    /\ UNCHANGED <<restVars, trackerVars, coordVars, weight_table, graph, zeroed, decisions,
                   executions>>

VisitEnd ==
    /\ Visiting("End")
    /\ engine' = record_step(Entered(engine), Top(engine), [type |-> "End"])
    /\ UNCHANGED <<restVars, trackerVars, coordVars, weight_table, graph, zeroed, decisions,
                   executions>>

VisitTerminal(guard_passed, outcome, violations) ==
    /\ Visiting("Terminal")
    /\ NodeAt(graph, Top(engine)).guard = <<>> => guard_passed
    /\ LET visited == visit_terminal(Entered(engine), graph, Effects, Top(engine),
                                     guard_passed, outcome, violations)
       IN  /\ engine' = Grown(visited)
           /\ executions' =
                  IF guard_passed
                  THEN Append(executions,
                              [action |-> NodeAt(graph, Top(engine)).action,
                               outcome |-> outcome,
                               signals |-> SubSeq(visited.signals, Len(engine.signals) + 1,
                                                  Len(visited.signals)),
                               findings |-> SubSeq(visited.findings,
                                                   Len(engine.findings) + 1,
                                                   Len(visited.findings))])
                  ELSE executions
    /\ UNCHANGED <<restVars, trackerVars, coordVars, weight_table, graph, zeroed, decisions>>

VisitBranch(unit) ==
    /\ Visiting("Branch")
    /\ LET node_id == Top(engine)
           model_hash == engine.model.generation
           decision == select_branch(NodeAt(graph, node_id).alternatives,
                                     model_hash, weight_table, unit)
       IN  /\ engine' = Grown(visit_branch(Entered(engine), graph, node_id, decision))
           /\ decisions' = Append(decisions,
                                  [branch_id |-> decision.branch_id,
                                   weight_used |-> decision.weight_used,
                                   model_hash |-> model_hash,
                                   zeroed |-> zeroed])
    /\ UNCHANGED <<restVars, trackerVars, coordVars, weight_table, graph, zeroed, executions>>

VisitLoopEntry ==
    /\ Visiting("LoopEntry")
    /\ LET node_id == Top(engine)
       IN  \E iterations \in choose_iterations(NodeAt(graph, node_id).min,
                                               NodeAt(graph, node_id).max) :
              engine' = Grown(visit_loop_entry(Entered(engine), graph, node_id,
                                               iterations))
    /\ UNCHANGED <<restVars, trackerVars, coordVars, weight_table, graph, zeroed, decisions,
                   executions>>

VisitLoopExit ==
    /\ Visiting("LoopExit")
    /\ LET node_id == Top(engine)
       IN  engine' = Grown(push_successors(
                               record_step(Entered(engine), node_id, [type |-> "LoopExit"]),
                               graph, node_id))
    /\ UNCHANGED <<restVars, trackerVars, coordVars, weight_table, graph, zeroed, decisions,
                   executions>>

\* The popped node finds the budget spent: the loop breaks.
BudgetExhausted ==
    /\ engine.status = "running"
    /\ engine.object_stack # <<>>
    /\ engine.step_counter >= engine.max_steps
    /\ engine' = [Popped(engine) EXCEPT !.status = "returned"]
    /\ UNCHANGED <<restVars, trackerVars, coordVars, weight_table, graph, zeroed, decisions,
                   executions>>

\* pop returns None: the loop ends.
StackEmptied ==
    /\ engine.status = "running"
    /\ engine.object_stack = <<>>
    /\ engine' = [engine EXCEPT !.status = "returned"]
    /\ UNCHANGED <<restVars, trackerVars, coordVars, weight_table, graph, zeroed, decisions,
                   executions>>

InitEngine ==
    /\ TrackerIdle
    /\ CoordIdle
    /\ graph \in Graphs
    /\ \E seeded \in BOOLEAN :
          weight_table = IF seeded
                         THEN set_default(set_default(NewWeightTable, "x", Q(1, 1)),
                                          "y", Q(0, 1))
                         ELSE NewWeightTable
    /\ \E generation \in {0, 1} : engine = NewEngine(generation)
    /\ zeroed = {}
    /\ decisions = <<>>
    /\ executions = <<>>
    /\ RestIdle

NextEngine ==
    \/ \E branch_id \in BranchIds : ApplyPermanentZero(branch_id)
    \/ \E max_steps \in 1..MaxSteps : RunPass(max_steps)
    \/ VisitStart
    \/ VisitEnd
    \/ \E guard_passed \in BOOLEAN, outcome \in Outcomes, violations \in {<<>>, <<"p">>} :
          VisitTerminal(guard_passed, outcome, violations)
    \/ \E unit \in Units : VisitBranch(unit)
    \/ VisitLoopEntry
    \/ VisitLoopExit
    \/ BudgetExhausted
    \/ StackEmptied

SpecEngine == InitEngine /\ [][NextEngine]_vars

-----------------------------------------------------------------------------
(* Claims about the timeout tracker and the coordinator.                   *)

\* The next call on the action of call i, after i, is call j.
NextCallOn(i, j) ==
    /\ i < j
    /\ calls[j].action = calls[i].action
    /\ \A k \in (i + 1)..(j - 1) : calls[k].action # calls[i].action

\* C3: for an action with no tracked timeout state, the first Timeout returns
\* no directive, and the next Timeout on it with no retry success in between
\* returns exactly one Skip for that action with state hash 0 and a remaining
\* budget greater than 0, the default 50.
C3_TwoStepTimeout ==
    \A i \in 1..Len(calls) :
        (calls[i].op = "handle_timeout" /\ calls[i].untracked) =>
            /\ calls[i].directive = <<>>
            /\ \A j \in 1..Len(calls) :
                  (NextCallOn(i, j) /\ calls[j].op = "handle_timeout") =>
                      /\ Len(calls[j].directive) = 1
                      /\ calls[j].directive[1] = Skip(calls[i].action, 0, 50)
                      /\ calls[j].directive[1].remaining > 0

C3_Witness ==
    \E i, j \in 1..Len(calls) :
        /\ calls[i].op = "handle_timeout" /\ calls[i].untracked
        /\ NextCallOn(i, j) /\ calls[j].op = "handle_timeout"
        /\ calls[j].directive # <<>>

\* The signals of the feed_signal calls made so far, in arrival order.
FedSignals ==
    LET idx == {i \in 1..Len(arrived) : arrived[i].call = "feed_signal"}
        f[i \in 0..Len(arrived)] ==
            IF i = 0 THEN <<>>
            ELSE IF i \in idx THEN Append(f[i - 1], arrived[i].signal) ELSE f[i - 1]
    IN  f[Len(arrived)]

\* Every event has been fed and processed, with no flush before the last call.
FedAndFlushed ==
    /\ coordinator.pending_signals = <<>>
    /\ \A i \in 1..(Len(arrived) - 1) : arrived[i].call = "feed_signal"

RECURSIVE feed_all(_, _, _)
feed_all(c, wt, signals) ==
    IF signals = <<>> THEN [coordinator |-> c, weight_table |-> wt]
    ELSE LET r == feed_signal(c, wt, Head(signals), alt_blocks)
         IN  feed_all(r.coordinator, r.weight_table, Tail(signals))

\* The directive log of a coordinator of the same configuration that is fed
\* the signals in the given order and then flushed.
DirectiveHistory(order) ==
    LET fresh == set_uncovered_target_branches(NewCoordinator(coordinator.config),
                                               coordinator.uncovered_target_branches)
        fed == feed_all(fresh, NewWeightTable, order)
    IN  flush(fed.coordinator, fed.weight_table, alt_blocks).coordinator.directive_log.entries

\* C1: once all events are fed and flushed, the directive log (directives,
\* triggering signals, epochs, seqnos) is the one every arrival order of the
\* same events yields; it is compared with the log of the (thread_id,
\* local_step)-sorted arrival order.
C1_SameHistoryAnyOrder ==
    FedAndFlushed =>
        coordinator.directive_log.entries = DirectiveHistory(SortSignals(FedSignals))

RECURSIVE SumAtZero(_, _)
SumAtZero(wt, branches) ==
    IF branches = <<>> THEN QZero
    ELSE QAdd(get(wt, Head(branches), 0), SumAtZero(wt, Tail(branches)))

\* C2: after every epoch processed with threshold > 0 and a non-empty set of
\* uncovered-target branches, their weights at state hash 0 sum to at least
\* threshold * 100.
C2_CoverageFloorAfterEpoch ==
    ( /\ coordinator.epoch > 0
      /\ QLt(QZero, coordinator.config.coverage_floor_threshold)
      /\ coordinator.uncovered_target_branches # <<>> )
    => QLe(QMul(coordinator.config.coverage_floor_threshold, <<100, 1>>),
           SumAtZero(weight_table, coordinator.uncovered_target_branches))

\* C4: a Timeout on an action whose retry succeeded since its previous Timeout
\* produces no Skip directive when the coordinator processes it.
C4_RetrySuccessCancels ==
    \A i \in 1..Len(processed) :
        processed[i].after_success =>
            \A k \in 1..Len(processed[i].directives) :
                processed[i].directives[k].type # "Skip"

RECURSIVE Recorded(_)
Recorded(entries) ==
    IF entries = <<>> THEN <<>>
    ELSE Recorded(SubSeq(entries, 1, Len(entries) - 1))
         \o [k \in 1..Len(entries[Len(entries)].directives) |->
                [directive |-> entries[Len(entries)].directives[k],
                 triggered_by |-> entries[Len(entries)].ev.signal_type,
                 epoch |-> entries[Len(entries)].epoch]]

\* C5: within an epoch the directives are recorded and applied in the order of
\* their triggering signals sorted by (thread_id, local_step): no signal is
\* mapped after one that it precedes, the log lists the directives in the
\* order the signals were mapped, and they are applied in that order.
C5_DirectivesInSignalOrder ==
    /\ \A i, j \in 1..Len(processed) :
          (i < j /\ processed[i].epoch = processed[j].epoch)
              => ~KeyLess(processed[j].ev, processed[i].ev)
    /\ LET rec == Recorded(processed)
           log == coordinator.directive_log.entries
       IN  /\ Len(log) = Len(rec)
           /\ \A k \in 1..Len(log) :
                 /\ log[k].directive = rec[k].directive
                 /\ log[k].triggered_by = rec[k].triggered_by
                 /\ log[k].epoch = rec[k].epoch
           /\ applied = [k \in 1..Len(rec) |-> rec[k].directive]

C5_Witness ==
    \E i, j \in 1..Len(arrived) :
        /\ i < j
        /\ arrived[i].call = "feed_signal" /\ arrived[j].call = "feed_signal"
        /\ KeyLess(arrived[j].signal, arrived[i].signal)
        /\ \E m, n \in 1..Len(processed) :
              /\ m < n
              /\ processed[m].epoch = processed[n].epoch
              /\ processed[m].ev = arrived[j].signal
              /\ processed[n].ev = arrived[i].signal
              /\ processed[m].directives # <<>>
              /\ processed[n].directives # <<>>

\* C6: the seqnos of the directive log start at 0 and increase by exactly 1
\* per entry, across all epochs.
C6_SeqnosConsecutive ==
    \A k \in 1..Len(coordinator.directive_log.entries) :
        coordinator.directive_log.entries[k].seqno = k - 1

C6_Witness ==
    LET log == coordinator.directive_log.entries
    IN  /\ Len(log) >= 3
        /\ log[1].epoch # log[Len(log)].epoch


-----------------------------------------------------------------------------
(* Claims about the traversal engine and the protocol compiler.            *)

\* C7: once a PermanentZero directive for branch b has been applied to the
\* weight table, no later Branch decision of the engine selects b, whatever
\* the generation of the model at that decision.
C7_PermanentZeroNeverSelected ==
    \A i \in DOMAIN decisions : decisions[i].branch_id \notin decisions[i].zeroed

\* The steps of the trace recorded at a node.
StepsAt(node_id) == SelectSeq(engine.trace.steps, LAMBDA step : step.node_id = node_id)

\* The pass has returned with budget left: its object stack emptied.
ReturnedWithinBudget ==
    engine.status = "returned" /\ engine.step_counter < engine.max_steps

\* C8: in a pass over a compiled graph that returns with its budget not
\* exhausted, every LoopEntry lowered from a repeat{min, max, body} made one
\* iteration choice k with min <= k <= max and the body was entered exactly k
\* times: the back-edge from the body's exit did not bring the walk to the
\* LoopEntry again.
C8_OneChoicePerLoop ==
    (graph \in CompiledGraphs /\ ReturnedWithinBudget) =>
        \A n \in 0..(Len(graph.nodes) - 1) :
            (NodeAt(graph, n).kind = "LoopEntry" /\ n \in engine.visited_nodes) =>
                LET enters == StepsAt(n)
                    k == enters[1].kind.iterations_chosen
                IN  /\ Len(enters) = 1
                    /\ NodeAt(graph, n).min <= k /\ k <= NodeAt(graph, n).max
                    /\ Len(StepsAt(NodeAt(graph, n).body_start)) = k

\* C9: every pass over a graph compiled from a validated IR returns, for every
\* max_steps: it ends because the object stack empties or the budget is
\* exhausted, and never by visiting nodes until the memory cannot hold the
\* object stack.
C9_EveryPassReturns ==
    graph \in CompiledGraphs => engine.status # "aborted"

\* C10: the max_steps budget is consumed only by executed Terminal actions:
\* the steps counted against it are the actions executed, so a pass that stops
\* on its budget has executed max_steps actions, whatever guard failures
\* occurred in between.
C10_BudgetOnlyForExecuted ==
    engine.status \in {"running", "returned"} =>
        /\ engine.step_counter = engine.actions_executed
        /\ (engine.status = "returned" /\ engine.step_counter >= engine.max_steps)
               => engine.actions_executed = engine.max_steps

\* The signals a trap is classified into, among those of one executor call.
TrapSignals(execution) ==
    SelectSeq(execution.signals,
              LAMBDA event : event.signal_type.type \in {"Timeout", "Crash"})

\* C11: every executor outcome with trapped = true is classified into exactly
\* one of two cases: one Timeout signal and no finding for it, when the error
\* message mentions fuel; otherwise one Crash signal and exactly one finding,
\* whose signal is that Crash.
C11_TrapClassified ==
    \A i \in DOMAIN executions :
        LET execution == executions[i]
            traps == TrapSignals(execution)
            owned == SelectSeq(execution.findings,
                               LAMBDA finding :
                                   finding.signal.signal_type.type \in {"Timeout", "Crash"})
            fuel == execution.outcome.error # <<>>
                    /\ MentionsFuel(execution.outcome.error[1])
        IN  execution.outcome.trapped =>
                /\ Len(traps) = 1
                /\ IF fuel
                   THEN traps[1].signal_type.type = "Timeout" /\ owned = <<>>
                   ELSE /\ traps[1].signal_type.type = "Crash"
                        /\ Len(owned) = 1
                        /\ owned[1].signal = traps[1]

-----------------------------------------------------------------------------
(* A ModelState driven through its public operations.  A Snapshot is       *)
(* Clone, so a token taken once can be rolled back to at any later time.   *)

EntityTypes == {"Document", "User"}

InstanceIds == {InstanceId(entity_type, index) : entity_type \in EntityTypes, index \in {0, 1}}

\* Value::Int
FieldValues == {1, 2}

ModelOp(op, after, extra) ==
    [op |-> op, before |-> model, after |-> after, extra |-> extra]

CreateInstance(entity_type) ==
    /\ Len(model_ops) < MaxModelOps
    /\ LET r == create_instance(model, entity_type)
       IN  /\ model' = r.state
           /\ model_ops' = Append(model_ops, ModelOp("create_instance", r.state, r.id))
    /\ UNCHANGED <<notModelVars, snapshots>>

SetField(id, field, value) ==
    /\ Len(model_ops) < MaxModelOps
    /\ model' = set_field(model, id, field, value)
    /\ model_ops' = Append(model_ops, ModelOp("set_field", model', id))
    /\ UNCHANGED <<notModelVars, snapshots>>

RecordAction(action) ==
    /\ Len(model_ops) < MaxModelOps
    /\ model' = record_action(model, action, <<>>)
    /\ model_ops' = Append(model_ops, ModelOp("record_action", model', action))
    /\ UNCHANGED <<notModelVars, snapshots>>

TakeSnapshot ==
    /\ Len(model_ops) < MaxModelOps
    /\ snapshots' = Append(snapshots, [token |-> snapshot(model), state |-> model])
    /\ model_ops' = Append(model_ops, ModelOp("snapshot", model, Len(snapshots) + 1))
    /\ UNCHANGED <<notModelVars, model>>

Rollback(i) ==
    /\ Len(model_ops) < MaxModelOps
    /\ i \in DOMAIN snapshots
    /\ model' = rollback(model, snapshots[i].token)
    /\ model_ops' = Append(model_ops, ModelOp("rollback", model', i))
    /\ UNCHANGED <<notModelVars, snapshots>>

InitModel ==
    /\ NotModelIdle
    /\ model = NewModelState
    /\ snapshots = <<>>
    /\ model_ops = <<>>

NextModel ==
    \/ \E entity_type \in EntityTypes : CreateInstance(entity_type)
    \/ \E id \in InstanceIds, value \in FieldValues : SetField(id, "status", value)
    \/ \E action \in ActionNames : RecordAction(action)
    \/ TakeSnapshot
    \/ \E i \in 1..MaxModelOps : Rollback(i)

SpecModel == InitModel /\ [][NextModel]_vars

-----------------------------------------------------------------------------
(* Claims about the model state.                                           *)

\* C12: rollback(T) restores the instances with their field maps, the trace,
\* the generation and the next instance id to exactly their values at the
\* state S where T was taken, whatever create_instance, set_field and
\* record_action did after T.
C12_RollbackRestores ==
    \A k \in DOMAIN model_ops :
        model_ops[k].op = "rollback" =>
            LET S == snapshots[model_ops[k].extra].state
                restored == model_ops[k].after
            IN  /\ restored.instances = S.instances
                /\ restored.trace = S.trace
                /\ restored.generation = S.generation
                /\ restored.next_instance_id = S.next_instance_id

\* A rollback over a state in which instances, fields, trace, generation and
\* instance counter had all moved on since the snapshot.
C12_Witness ==
    \E k \in DOMAIN model_ops :
        /\ model_ops[k].op = "rollback"
        /\ LET S == snapshots[model_ops[k].extra].state
               left == model_ops[k].before
           IN  /\ left.instances # S.instances
               /\ left.trace # S.trace
               /\ left.generation > S.generation
               /\ left.next_instance_id > S.next_instance_id
               /\ model = S

\* C13: no two create_instance calls on one model state return the same
\* identifier, over any sequence of create_instance, set_field, snapshot and
\* rollback.
C13_IdsNeverReused ==
    \A j, k \in DOMAIN model_ops :
        (j < k /\ model_ops[j].op = "create_instance"
               /\ model_ops[k].op = "create_instance")
            => model_ops[j].extra # model_ops[k].extra

\* C14: the generation counter never decreases over any operation on the
\* state: create_instance, set_field, record_action, snapshot, rollback.
C14_GenerationMonotonic ==
    \A k \in DOMAIN model_ops :
        model_ops[k].before.generation <= model_ops[k].after.generation

-----------------------------------------------------------------------------
(* The campaign manager under concurrent compile calls.  Every lock        *)
(* acquisition of compile is a step of its own; the other requests take    *)
(* their locks one after the other without another request in between.     *)

RequestIds == 1..MaxRequestId

Seqnos == {0, 1}

PhaseOf(m, id) == IF id \in DOMAIN m.campaigns THEN <<m.campaigns[id].phase>> ELSE <<>>

Request(op, id, after, result) ==
    [op |-> op, id |-> id, before |-> PhaseOf(manager, id), after |-> PhaseOf(after, id),
     result |-> result]

Serve(op, id, after, result) ==
    /\ Len(requests) < MaxRequests
    /\ manager' = after
    /\ requests' = Append(requests, Request(op, id, after, result))
    /\ UNCHANGED <<notManagerVars, compiling>>

\* The count is read under the campaigns lock and the lock released.
CompileCheck(t) ==
    /\ compiling[t] = Returned
    /\ manager.next_id <= MaxCompiles
    /\ compiling' = [compiling EXCEPT ![t] = IF Cardinality(DOMAIN manager.campaigns)
                                                   >= max_concurrent_campaigns
                                             THEN Returned
                                             ELSE [at |-> "checked"]]
    /\ UNCHANGED <<notManagerVars, manager, requests>>

\* parse_ir and compile, then the id taken under the next_id lock.
CompileBuild(t, ir) ==
    /\ compiling[t] = [at |-> "checked"]
    /\ IF compile(ir).result # "Ok"
       THEN compiling' = [compiling EXCEPT ![t] = Returned] /\ UNCHANGED manager
       ELSE /\ manager' = [manager EXCEPT !.next_id = @ + 1]
            /\ compiling' = [compiling EXCEPT ![t] =
                                [at |-> "allocated", id |-> manager.next_id]]
    /\ UNCHANGED <<notManagerVars, requests>>

InsertCampaign(t) ==
    /\ compiling[t].at = "allocated"
    /\ manager' = [manager EXCEPT !.campaigns =
                      insert(@, compiling[t].id, NewCampaignState(compiling[t].id))]
    /\ compiling' = [compiling EXCEPT ![t].at = "in campaigns"]
    /\ UNCHANGED <<notManagerVars, requests>>

InsertFindings(t) ==
    /\ compiling[t].at = "in campaigns"
    /\ manager' = [manager EXCEPT !.findings = insert(@, compiling[t].id, <<>>)]
    /\ compiling' = [compiling EXCEPT ![t].at = "in findings"]
    /\ UNCHANGED <<notManagerVars, requests>>

InsertAnalytics(t) ==
    /\ compiling[t].at = "in findings"
    /\ manager' = [manager EXCEPT !.analytics = insert(@, compiling[t].id, "Compiled")]
    /\ compiling' = [compiling EXCEPT ![t] = Returned]
    /\ UNCHANGED <<notManagerVars, requests>>

SetPhase(id, phase) ==
    LET r == set_phase(manager, id, phase)
    IN  Serve("set_phase", id, r.manager, r.result)

AddFinding(id, seqno) ==
    Serve("add_finding", id, manager_add_finding(manager, id, FindingRecord(seqno)), "Ok")

Abort(id) ==
    LET r == abort(manager, id)
    IN  Serve("abort", id, r.manager, r.result)

RemoveCampaign(id) == Serve("remove_campaign", id, remove_campaign(manager, id), "Ok")

FuzzStart(id) ==
    LET r == tool_beacon_fuzz_start(manager, id)
    IN  Serve("fuzz_start", id, r.manager, r.result)

InitManager ==
    /\ NotManagerIdle
    /\ manager = NewCampaignManager
    /\ compiling = [t \in Threads |-> Returned]
    /\ requests = <<>>

NextManager ==
    \/ \E t \in Threads : CompileCheck(t)
    \/ \E t \in Threads, ir \in IRs : CompileBuild(t, ir)
    \/ \E t \in Threads : InsertCampaign(t)
    \/ \E t \in Threads : InsertFindings(t)
    \/ \E t \in Threads : InsertAnalytics(t)
    \/ \E id \in RequestIds, phase \in CampaignPhases : SetPhase(id, phase)
    \/ \E id \in RequestIds, seqno \in Seqnos : AddFinding(id, seqno)
    \/ \E id \in RequestIds : Abort(id)
    \/ \E id \in RequestIds : RemoveCampaign(id)
    \/ \E id \in RequestIds : FuzzStart(id)

SpecManager == InitManager /\ [][NextManager]_vars

\* C15: for every campaign, the findings the manager stores carry strictly
\* increasing seqnos in the order in which they were recorded.
C15_FindingSeqnosIncrease ==
    \A id \in DOMAIN manager.findings :
        \A i, j \in DOMAIN manager.findings[id] :
            i < j => manager.findings[id][i].seqno < manager.findings[id][j].seqno

\* C16: a phase-transition or fuzz_start request on a campaign in phase Aborted
\* or Complete is rejected as an invalid phase transition and leaves the
\* phase unchanged.
C16_TerminalPhasesFinal ==
    \A i \in DOMAIN requests :
        LET r == requests[i]
        IN  (r.op \in {"set_phase", "fuzz_start"}
             /\ r.before \in {<<"Aborted">>, <<"Complete">>})
            => (r.result = "InvalidState" /\ r.after = r.before)

\* C17: the number of campaigns held by the manager never exceeds
\* max_concurrent_campaigns, under any interleaving of concurrent compile calls.
C17_CampaignLimit == Cardinality(DOMAIN manager.campaigns) <= max_concurrent_campaigns

-----------------------------------------------------------------------------
\* C18: a weight that is exactly 0 at (b, 0) stays exactly 0 through the
\* coordinator's epoch processing: no feed_signal or flush turns a stored
\* zero weight into a non-zero one.
C18_ZeroStaysZero ==
    [][\A b \in ActionNames :
          (<<b, 0>> \in DOMAIN weight_table.weights
           /\ weight_table.weights[<<b, 0>>] = QZero)
          => (<<b, 0>> \in DOMAIN weight_table'.weights
              /\ weight_table'.weights[<<b, 0>>] = QZero)]_vars

-----------------------------------------------------------------------------
(* compile on a family of IRs: every protocol tree of the shapes below     *)
(* over the actions a (which has an effect and a binding) and c (which has *)
(* neither), with refs to main, to sub and to a missing protocol.          *)

Leaves ==
    {CallNode("a"), CallNode("c"), RefNode("main"), RefNode("sub"), SeqNode(<<>>),
     AltNode(<<>>)}

Weights == 0..MaxWeight

Roots ==
    Leaves
    \cup {SeqNode(<<p, q>>) : p, q \in Leaves}
    \cup {RepeatNode(min, 1, body) : min \in 1..MaxRepeat, body \in Leaves}
    \cup {AltNode(<<AltBranch("x", w, <<>>, body)>>) : w \in Weights, body \in Leaves}
    \cup {AltNode(<<AltBranch("x", w, <<>>, body), AltBranch("y", v, <<>>, CallNode("a"))>>) :
             w \in Weights, v \in Weights, body \in Leaves}

CompileIRs ==
    {IR(Main(root)) : root \in Roots}
    \cup {IR([p \in {"main", "sub"} |-> [root |-> IF p = "main" THEN root ELSE sub]]) :
             root \in Roots, sub \in {CallNode("a"), RefNode("main"), RefNode("sub")}}

Compile(ir) ==
    /\ compiled' = <<[ir |-> ir, returned |-> compile(ir)]>>
    /\ UNCHANGED notCompileVars

InitCompile == NotCompileIdle /\ compiled = <<>>

NextCompile == \E ir \in CompileIRs : Compile(ir)

SpecCompile == InitCompile /\ [][NextCompile]_vars

\* C19: compile succeeds if and only if validation reports no errors; it
\* returns successfully on every IR that passes validation.
C19_CompileIffValid ==
    compiled # <<>>
    => (compiled[1].returned.result = "Ok" <=> validate_ir(compiled[1].ir) = {})

\* C20: every Branch node of a graph compiled from an IR that passes
\* validation has at least one alternative, and at least one of its
\* alternatives has weight > 0.
C20_BranchHasLiveAlternative ==
    (compiled # <<>> /\ compiled[1].returned.result = "Ok")
    => \A p \in DOMAIN compiled[1].returned.graphs :
          LET nodes == compiled[1].returned.graphs[p].nodes
          IN  \A n \in DOMAIN nodes :
                 nodes[n].kind = "Branch"
                 => /\ nodes[n].alternatives # <<>>
                    /\ \E k \in DOMAIN nodes[n].alternatives :
                          QLt(QZero, nodes[n].alternatives[k].weight)

-----------------------------------------------------------------------------
(* The reachability analysis on the graphs of the compiled IRs, on a       *)
(* protocol that is referenced twice and on a graph with an orphan branch. *)

TwiceReferenced ==
    IR([p \in {"main", "sub"} |->
           [root |-> IF p = "main"
                     THEN SeqNode(<<RefNode("sub"), RefNode("sub")>>)
                     ELSE SeqNode(<<AltNode(<<AltBranch("x", 1, <<>>, CallNode("a"))>>),
                                    AltNode(<<>>)>>)]])

\* Start -> t -> End, and a Branch node no edge leads to.
OrphanGraph ==
    LET t == add_node(NewGraph, Terminal("a", <<>>))
        g1 == add_edge(t.graph, t.graph.entry, t.id)
        g2 == add_edge(g1, t.id, g1.exit)
        dead == add_node(g2, Terminal("b", <<>>))
        orphan == add_node(dead.graph, Branch(<<BranchEdge("x", Q(50, 1), dead.id, <<>>)>>))
    IN  orphan.graph

Parts ==
    {CallNode("a"), SeqNode(<<>>), AltNode(<<>>), RepeatNode(1, 1, CallNode("a")),
     AltNode(<<AltBranch("x", 1, <<>>, CallNode("a"))>>),
     AltNode(<<AltBranch("y", 0, <<>>, CallNode("a")),
               AltBranch("z", 1, <<>>, CallNode("b"))>>)}

ReachIRs ==
    CompileIRs \cup {TwiceReferenced}
    \cup {IR(Main(SeqNode(<<p, q, r>>))) : p, q, r \in Parts}

ReachGraphs ==
    {compile(ir).graphs["main"] : ir \in {i \in ReachIRs : compile(i).result = "Ok"}}
    \cup {OrphanGraph}

Analyse(g) ==
    /\ analysed' = <<[graph |-> g, directives |-> generate_unreachability_directives(g)]>>
    /\ UNCHANGED notReachVars

InitReach == NotReachIdle /\ analysed = <<>>

NextReach == \E g \in ReachGraphs : Analyse(g)

SpecReach == InitReach /\ [][NextReach]_vars

\* The nodes one step away from node_id: along an edge, to a branch target or
\* to a loop body.
StepsFrom(g, node_id) ==
    {g.edges[i][2] : i \in {j \in DOMAIN g.edges : g.edges[j][1] = node_id}}
    \cup (IF node_id + 1 \in DOMAIN g.nodes
          THEN LET node == g.nodes[node_id + 1]
               IN  CASE node.kind = "Branch" ->
                          {node.alternatives[k].target : k \in DOMAIN node.alternatives}
                     [] node.kind = "LoopEntry" -> {node.body_start}
                     [] OTHER -> {}
          ELSE {})

RECURSIVE ReachableFrom(_, _)
ReachableFrom(g, nodes) ==
    LET more == nodes \cup UNION {StepsFrom(g, n) : n \in nodes}
    IN  IF more = nodes THEN nodes ELSE ReachableFrom(g, more)

\* C21: a PermanentZero directive is emitted for a branch id if and only if
\* the enclosing Branch node or the branch target is not reachable from the
\* entry; no branch that is reachable from the entry is zeroed.
C21_ZeroedIffUnreachable ==
    analysed # <<>>
    => LET g == analysed[1].graph
           reached == ReachableFrom(g, {g.entry})
           zeroed_ids == {analysed[1].directives[i].branch_id :
                             i \in DOMAIN analysed[1].directives}
       IN  \A n \in DOMAIN g.nodes :
              g.nodes[n].kind = "Branch"
              => \A k \in DOMAIN g.nodes[n].alternatives :
                    LET alt == g.nodes[n].alternatives[k]
                    IN  alt.id \in zeroed_ids
                        <=> ((n - 1) \notin reached \/ alt.target \notin reached)

-----------------------------------------------------------------------------
(* run_pipeline on an input space with an enum domain and a bool domain,   *)
(* under every set of the constraint clauses below.                        *)

Encoded ==
    [domains |-> [role |-> [kind |-> "OneHot", variants |-> <<"admin", "guest", "user">>],
                  auth |-> [kind |-> "Bool"]]]

\* guest implies not authenticated; role is admin; role is not admin;
\* authenticated; not authenticated.
ConstraintClauses ==
    {<<Lit("role", "guest", FALSE), Lit("auth", "true", FALSE)>>,
     <<Lit("role", "admin", TRUE)>>,
     <<Lit("role", "admin", FALSE)>>,
     <<Lit("auth", "true", TRUE)>>,
     <<Lit("auth", "true", FALSE)>>}

RECURSIVE SeqOfSet(_)
SeqOfSet(S) == IF S = {} THEN <<>> ELSE LET x == CHOOSE y \in S : TRUE
                                        IN  <<x>> \o SeqOfSet(S \ {x})

Reversed(s) == [i \in DOMAIN s |-> s[Len(s) + 1 - i]]

SolverOrders == {SeqOfSet(Assignments(Encoded)), Reversed(SeqOfSet(Assignments(Encoded)))}

FractureVariables ==
    {<<>>, <<"role">>, <<"auth">>, <<"role", "auth">>, <<"auth", "role">>,
     <<"role", "role">>, <<"role", "none">>}

PipelineInputs ==
    {[encoded |-> Encoded, constraint_clauses |-> SeqOfSet(clauses),
      variables |-> variables, max_vectors_per_leaf |-> max, order |-> order] :
        clauses \in SUBSET ConstraintClauses, variables \in FractureVariables,
        max \in 0..MaxVectors, order \in SolverOrders}

RunPipeline ==
    /\ pipeline_result = <<>>
    /\ pipeline_result' = <<run_pipeline(pipeline[1])>>
    /\ UNCHANGED <<notPipelineVars, pipeline>>

InitPipeline ==
    /\ NotPipelineIdle
    /\ \E p \in PipelineInputs : pipeline = <<p>>
    /\ pipeline_result = <<>>

NextPipeline == RunPipeline

SpecPipeline == InitPipeline /\ [][NextPipeline]_vars

\* The subspace that fixes the first Len(choice) fracture variables of p to
\* the values of `choice` holds the assignment asg.
Fits(asg, p, choice) == \A k \in DOMAIN choice : asg[p.variables[k]] = choice[k]

\* The subspace does not contradict the constraints.
Solvable(p, choice) ==
    \E asg \in Assignments(p.encoded) :
        Satisfies(asg, p.constraint_clauses) /\ Fits(asg, p, choice)

\* The subspaces of the run: every choice of values for a non-empty prefix of
\* the fracture variables whose parent subspace was not aborted.
BuiltSubspaces(p) ==
    LET values(k) == IF p.variables[k] \in DOMAIN p.encoded.domains
                     THEN domain_values(p.encoded.domains[p.variables[k]])
                     ELSE <<>>
        all == UNION {{values(k)[i] : i \in DOMAIN values(k)} : k \in DOMAIN p.variables}
    IN  UNION {{choice \in [1..d -> all] :
                   /\ \A k \in 1..d : \E i \in DOMAIN values(k) : choice[k] = values(k)[i]
                   /\ \A e \in 1..(d - 1) : Solvable(p, [k \in 1..e |-> choice[k]])} :
               d \in 1..Len(p.variables)}

Fractured ==
    /\ pipeline_result # <<>>
    /\ ~pipeline_result[1].err
    /\ pipeline[1].variables # <<>>

\* C22: every subspace whose fixing clauses contradict the constraints
\* contributes no vector to the result and is counted as UNSAT, while its
\* sibling subspaces are still solved: every leaf subspace that does not
\* contradict the constraints is counted as SAT and contributes a vector,
\* and all its vectors in an exhaustive run.
C22_UnsatSubspacesAborted ==
    Fractured
    => LET p == pipeline[1]
           r == pipeline_result[1]
           built == BuiltSubspaces(p)
           leaves == {c \in built : Len(c) = Len(p.variables) /\ Solvable(p, c)}
           vectors == {r.vectors[i] : i \in DOMAIN r.vectors}
       IN  /\ r.unsat_count = Cardinality({c \in built : ~Solvable(p, c)})
           /\ r.sat_count = Cardinality(leaves)
           /\ \A v \in vectors : Satisfies(v, p.constraint_clauses)
           /\ \A c \in built : ~Solvable(p, c) => \A v \in vectors : ~Fits(v, p, c)
           /\ \A c \in leaves : \E v \in vectors : Fits(v, p, c)
           /\ p.max_vectors_per_leaf = 0
              => vectors = {asg \in Assignments(p.encoded) :
                               Satisfies(asg, p.constraint_clauses)}

\* A run over two fracture variables in which a subspace was aborted and its
\* siblings contributed vectors.
C22_Witness ==
    /\ Fractured
    /\ Len(pipeline[1].variables) = 2
    /\ pipeline_result[1].unsat_count > 0
    /\ pipeline_result[1].sat_count > 1
    /\ pipeline_result[1].vectors # <<>>

(***************************************************************************)
(* The sandbox specification: one instance of a module, run by WASM        *)
(* actions that write its memory, set its mutable globals, grow its memory *)
(* and burn fuel; a paired snapshot is taken and restored, possibly into a *)
(* fresh instance of the same module.                                      *)
(***************************************************************************)
Bytes == {0, 1}

ModuleGlobals ==
    { <<>>,
      << [name |-> "g", value |-> 0, mutable |-> TRUE] >>,
      << [name |-> "g", value |-> 0, mutable |-> TRUE],
         [name |-> "k", value |-> 1, mutable |-> FALSE] >> }

FreshInstances ==
    { [memory |-> mem, globals |-> gl, fuel |-> fuel] :
        mem \in {<<>>, << <<0>> >>}, gl \in ModuleGlobals,
        fuel \in {<<>>, <<MaxFuel>>} }

NewSandbox(fresh) ==
    [fresh |-> fresh, instance |-> fresh, snapshot |-> <<>>, last |-> <<>>]

Instantiate ==
    /\ sandbox' = [sandbox EXCEPT !.instance = sandbox.fresh, !.last = <<>>]
    /\ UNCHANGED notSandboxVars

MemoryWrite(i, b) ==
    /\ sandbox.instance.memory # <<>>
    /\ i <= Len(sandbox.instance.memory[1])
    /\ sandbox' = [sandbox EXCEPT !.instance.memory[1][i] = b, !.last = <<>>]
    /\ UNCHANGED notSandboxVars

MemoryGrow ==
    /\ sandbox.instance.memory # <<>>
    /\ ~grow(sandbox.instance.memory[1], 1).err
    /\ sandbox' = [sandbox EXCEPT
                      !.instance.memory[1] = grow(sandbox.instance.memory[1], 1).memory,
                      !.last = <<>>]
    /\ UNCHANGED notSandboxVars

GlobalSet(k, v) ==
    /\ k <= Len(sandbox.instance.globals)
    /\ sandbox.instance.globals[k].mutable
    /\ sandbox' = [sandbox EXCEPT !.instance.globals[k].value = v, !.last = <<>>]
    /\ UNCHANGED notSandboxVars

BurnFuel ==
    /\ sandbox.instance.fuel # <<>>
    /\ sandbox.instance.fuel[1] > 0
    /\ sandbox' = [sandbox EXCEPT !.instance.fuel[1] = @ - 1, !.last = <<>>]
    /\ UNCHANGED notSandboxVars

PairedSnapshotTake(model_generation) ==
    /\ sandbox' = [sandbox EXCEPT
                      !.snapshot = <<PairedSnapshot(sandbox.instance, model_generation)>>,
                      !.last = <<>>]
    /\ UNCHANGED notSandboxVars

Restore ==
    /\ sandbox.snapshot # <<>>
    /\ LET r == restore(sandbox.instance, sandbox.snapshot[1])
       IN  sandbox' = [sandbox EXCEPT
                          !.instance = r.instance,
                          !.last = << [before |-> sandbox.instance,
                                       snapshot |-> sandbox.snapshot[1],
                                       err |-> r.err,
                                       generation |-> r.generation] >>]
    /\ UNCHANGED notSandboxVars

InitSandbox ==
    /\ NotSandboxIdle
    /\ \E fresh \in FreshInstances : sandbox = NewSandbox(fresh)

NextSandbox ==
    \/ Instantiate
    \/ \E i \in 1..MaxPages, b \in Bytes : MemoryWrite(i, b)
    \/ MemoryGrow
    \/ \E k \in 1..2, v \in Bytes : GlobalSet(k, v)
    \/ BurnFuel
    \/ \E model_generation \in 0..MaxGeneration : PairedSnapshotTake(model_generation)
    \/ Restore

SpecSandbox == InitSandbox /\ [][NextSandbox]_vars

\* the instance holds what the snapshot captured: the memory up to the
\* snapshot's length (zero beyond it), every captured global, the fuel
RestoredTo(instance, snap) ==
    /\ (snap.wasm_memory # <<>> /\ instance.memory # <<>>) =>
           /\ Len(instance.memory[1]) >= Len(snap.wasm_memory[1])
           /\ \A i \in 1..Len(instance.memory[1]) :
                  instance.memory[1][i] =
                      IF i <= Len(snap.wasm_memory[1]) THEN snap.wasm_memory[1][i] ELSE 0
    /\ \A i \in 1..Len(snap.wasm_globals) :
           \A k \in get_global(instance, snap.wasm_globals[i].name) :
               instance.globals[k].value = snap.wasm_globals[i].value
    /\ snap.fuel_remaining # <<>> => instance.fuel = snap.fuel_remaining

\* C23: restoring a paired snapshot is all-or-nothing: when restore returns
\* an error the memory, the globals and the fuel are as they were before the
\* call and no generation is returned; when it succeeds they are all as the
\* snapshot captured them and the snapshot's generation is returned.
C23_RestoreAllOrNothing ==
    sandbox # <<>> /\ sandbox.last # <<>> =>
        LET l == sandbox.last[1]
        IN  IF l.err
            THEN sandbox.instance = l.before /\ l.generation = <<>>
            ELSE /\ RestoredTo(sandbox.instance, l.snapshot)
                 /\ l.generation = <<l.snapshot.model_generation>>

\* The steps of the trace of an engine that are of one kind.
StepsOfType(e, type) == SelectSeq(e.trace.steps, LAMBDA step : step.kind.type = type)

\* The pass returns having walked the whole of its chosen path: the stack is
\* empty, or the budget check stops it on the exit node with nothing else
\* left to visit (the path then held exactly max_steps Terminal nodes).
WalkedWholePath ==
    /\ engine # <<>> /\ engine.status = "running"
    /\ engine'.status = "returned"
    /\ engine.object_stack \in {<<>>, <<graph.exit>>}

\* C24: a pass over a compiled graph whose chosen path holds at most
\* max_steps Terminal nodes returns a trace whose first step is Start, whose
\* last step is End, and in which End is recorded exactly once.
C24_TraceStartsAndEndsOnce ==
    [][(WalkedWholePath /\ graph \in CompiledGraphs) =>
           LET steps == engine'.trace.steps
           IN  /\ steps # <<>>
               /\ steps[1].kind.type = "Start"
               /\ steps[Len(steps)].kind.type = "End"
               /\ Len(StepsOfType(engine', "End")) = 1]_vars

(***************************************************************************)
(* runner.rs: run_campaign makes one TraversalEngine per pass over the     *)
(* same graph, model and weight table and aggregates the results.  The     *)
(* passes are those of the engine specification; PassDone is the tail of   *)
(* the loop body and the construction of the engine of the next pass.      *)
(***************************************************************************)
NewCampaignResult ==
    [findings |-> <<>>, total_actions |-> 0, passes_completed |-> 0,
     unique_nodes_visited |-> 0, total_guard_failures |-> 0]

aggregate(result, e) ==
    [findings |-> result.findings \o e.findings,
     total_actions |-> result.total_actions + e.actions_executed,
     passes_completed |-> result.passes_completed + 1,
     unique_nodes_visited |->
         IF Cardinality(e.visited_nodes) > result.unique_nodes_visited
         THEN Cardinality(e.visited_nodes) ELSE result.unique_nodes_visited,
     total_guard_failures |-> result.total_guard_failures + e.guards_failed]

PassDone ==
    /\ engine.status = "returned"
    /\ campaign_result' = aggregate(campaign_result, engine)
    /\ engine' = IF campaign_result.passes_completed + 1 < MaxPasses
                 THEN NewEngine(engine.model.generation)
                 ELSE [engine EXCEPT !.status = "collected"]
    /\ UNCHANGED notCampaignEngineVars

CampaignGraphs ==
    {compile_protocol(Main(SeqNode(<<CallNode("a"), TwoWay(1, 1)>>)).main,
                      Main(SeqNode(<<CallNode("a"), TwoWay(1, 1)>>))),
     FixedLoopGraph}

InitCampaign ==
    /\ NotCampaignEngineIdle
    /\ graph \in CampaignGraphs
    /\ weight_table = NewWeightTable
    /\ engine = NewEngine(0)
    /\ zeroed = {}
    /\ decisions = <<>>
    /\ executions = <<>>
    /\ campaign_result = NewCampaignResult

NextCampaign ==
    \/ \E max_steps \in 2..MaxSteps : RunPass(max_steps)
    \/ VisitStart
    \/ VisitEnd
    \/ \E outcome \in Outcomes, violations \in {<<>>, <<"p">>} :
          VisitTerminal(TRUE, outcome, violations)
    \/ VisitBranch(Q(0, 1))
    \/ VisitLoopEntry
    \/ VisitLoopExit
    \/ BudgetExhausted
    \/ StackEmptied
    \/ PassDone

SpecCampaign == InitCampaign /\ [][NextCampaign]_vars

\* C25: in the findings a campaign run returns, ids increase strictly in
\* order of creation, across all its passes (hence no two are equal).
C25_FindingIdsIncrease ==
    campaign_result # <<>> =>
        \A i, j \in 1..Len(campaign_result.findings) :
            i < j => campaign_result.findings[i].id < campaign_result.findings[j].id

(***************************************************************************)
(* The timeout tracker with a small skip budget, as the tests of           *)
(* timeout.rs construct it, so that a skip runs out within a few calls.    *)
(***************************************************************************)
SkipTimeout(action) ==
    /\ Len(calls) < MaxSkipCalls
    /\ LET r == handle_timeout(tracker, action, <<>>)
       IN  /\ tracker' = r.tracker
           /\ calls' = Append(calls, Call("handle_timeout", action, r.directive))
    /\ UNCHANGED <<coordVars, weight_table, engineVars, restVars>>

SkipRetrySuccess(action) ==
    /\ Len(calls) < MaxSkipCalls
    /\ tracker' = report_retry_success(tracker, action)
    /\ calls' = Append(calls, Call("report_retry_success", action, <<>>))
    /\ UNCHANGED <<coordVars, weight_table, engineVars, restVars>>

InitSkip ==
    /\ \E budget \in 0..MaxSkipBudget :
          tracker = [NewTimeoutTracker EXCEPT !.default_skip_budget = budget]
    /\ calls = <<>>
    /\ CoordIdle
    /\ weight_table = NewWeightTable
    /\ EngineIdle
    /\ RestIdle

NextSkip ==
    \/ \E action \in ActionNames : SkipTimeout(action)
    \/ \E action \in ActionNames : SkipRetrySuccess(action)

SpecSkip == InitSkip /\ [][NextSkip]_vars

\* The calls on an action after call i.
CallsAfter(i, action) ==
    SelectSeq(SubSeq(calls, i + 1, Len(calls)), LAMBDA c : c.action = action)

\* Call i emitted a Skip for the action and only Timeouts on it followed.
SkipAt(i, action) ==
    /\ calls[i].action = action
    /\ calls[i].directive # <<>>
    /\ calls[i].directive[1].type = "Skip"
    /\ \A k \in 1..Len(CallsAfter(i, action)) :
           CallsAfter(i, action)[k].op = "handle_timeout"

\* C26: after a Skip for an action with budget n, the action stays skipped
\* through the next n Timeouts on it, each taking one from the remaining
\* budget and returning no directive; the Timeout after those clears the
\* state, with no directive, and the one after that schedules a retry, with
\* no Skip.
C26_SkipRunsOut ==
    \A i \in 1..Len(calls), action \in ActionNames :
        SkipAt(i, action) =>
            LET n == calls[i].directive[1].remaining
                k == Len(CallsAfter(i, action))
            IN  /\ k <= n =>
                      /\ is_skipped(tracker, action)
                      /\ tracker.states[action].skip_remaining = n - k
                /\ k = n + 1 => action \notin DOMAIN tracker.states
                /\ k = n + 2 =>
                      /\ needs_retry(tracker, action) # <<>>
                      /\ ~is_skipped(tracker, action)
                /\ \A j \in 1..k :
                      j <= n + 2 => CallsAfter(i, action)[j].directive = <<>>

\* A skip with a budget of at least 1 has run out and a new cycle has begun.
C26_Witness ==
    \E i \in 1..Len(calls), action \in ActionNames :
        /\ SkipAt(i, action)
        /\ calls[i].directive[1].remaining >= 1
        /\ Len(CallsAfter(i, action)) = calls[i].directive[1].remaining + 2

(***************************************************************************)
(* The memory specification: a memory holding the learned weights of an    *)
(* earlier campaign is prepared for new campaigns, between which capsules  *)
(* are added and their replays are reported.                               *)
(***************************************************************************)
MemoryConfigs == {DefaultMemoryConfig, MemoryConfig(Q(1, 2), Q(1, 5), 1)}

SavedWeights ==
    { <<>>,
      <<LearnedWeight("a", 0, Q(100, 1))>>,
      <<LearnedWeight("a", 0, Q(3, 2)), LearnedWeight("b", 1, Q(1, 1))>> }

\* a capsule whose count of consecutive failed replays is at the threshold
Invalidated(mem, config) ==
    {idx \in DOMAIN mem.non_reproduction_counts :
        /\ idx < Len(mem.replay_capsules)
        /\ mem.non_reproduction_counts[idx] >= config.invalidation_threshold}

AddCapsule(trigger_action) ==
    /\ Len(campaign_memory.replay_capsules) < MaxCapsules
    /\ campaign_memory' = add_capsule(campaign_memory, trigger_action)
    /\ UNCHANGED <<memory_history, notMemoryVars>>

RecordNonReproduction(capsule_index) ==
    /\ capsule_index \in DOMAIN campaign_memory.non_reproduction_counts =>
           campaign_memory.non_reproduction_counts[capsule_index] < MaxNonReproductions
    /\ campaign_memory' = record_non_reproduction(campaign_memory, capsule_index)
    /\ UNCHANGED <<memory_history, notMemoryVars>>

RecordReproduction(capsule_index) ==
    /\ campaign_memory' = record_reproduction(campaign_memory, capsule_index)
    /\ UNCHANGED <<memory_history, notMemoryVars>>

\* Runs are followed up to the first preparation made while a capsule is at
\* the threshold.
PrepareNewCampaign ==
    /\ memory_history.prepared < MaxPrepares
    /\ memory_history.clean
    /\ campaign_memory' = prepare_new_campaign(campaign_memory, memory_history.config)
    /\ memory_history' =
           [memory_history EXCEPT
               !.prepared = @ + 1,
               !.clean = @ /\ Invalidated(campaign_memory, memory_history.config) = {}]
    /\ UNCHANGED notMemoryVars

InitMemory ==
    /\ NotMemoryIdle
    /\ \E weights \in SavedWeights, config \in MemoryConfigs :
          /\ campaign_memory = save_learned_weights(NewCampaignMemory, weights)
          /\ memory_history = [config |-> config, initial |-> weights,
                               prepared |-> 0, clean |-> TRUE]

NextMemory ==
    \/ \E trigger_action \in ActionNames : AddCapsule(trigger_action)
    \/ \E capsule_index \in 0..MaxCapsules : RecordNonReproduction(capsule_index)
    \/ \E capsule_index \in 0..MaxCapsules : RecordReproduction(capsule_index)
    \/ PrepareNewCampaign

SpecMemory == InitMemory /\ [][NextMemory]_vars

RECURSIVE QPow(_, _)
QPow(x, k) == IF k = 0 THEN QOne ELSE QMul(x, QPow(x, k - 1))

\* C27: after K calls of prepare_new_campaign with decay factor d, none of
\* them made while a capsule was at the invalidation threshold, every learned
\* weight is its initial value times d^K and campaign_count has grown by K.
C27_DecayCompounds ==
    (memory_history # <<>> /\ memory_history.clean) =>
        LET K == memory_history.prepared
            d == memory_history.config.cross_campaign_decay
        IN  /\ campaign_memory.campaign_count = K
            /\ Len(campaign_memory.learned_weights) = Len(memory_history.initial)
            /\ \A i \in 1..Len(memory_history.initial) :
                   campaign_memory.learned_weights[i] =
                       [memory_history.initial[i] EXCEPT !.weight = QMul(@, QPow(d, K))]

\* Three clean preparations of a memory that holds weights, with a capsule
\* on record whose replays failed, though fewer times than the threshold.
C27_Witness ==
    /\ memory_history # <<>> /\ memory_history.clean
    /\ memory_history.prepared >= 2
    /\ memory_history.initial # <<>>
    /\ \E idx \in DOMAIN campaign_memory.non_reproduction_counts :
           idx < Len(campaign_memory.replay_capsules)

(***************************************************************************)
(* normalize as a function of the table, the branches and the hash: the    *)
(* table holds any of a few weights, negative ones included, for three     *)
(* branches at hash 0, and the call names up to MaxBranches of them,       *)
(* possibly one more than once.                                            *)
(***************************************************************************)
BranchNames == {"x", "y", "z"}

WeightValues == {Q(0, 1), Q(1, 1), Q(3, 1), Q(1, 2), Q(-1, 1)}

\* the tables holding a weight at hash 0 for the branches of present
TablesOver(present) ==
    { [weights |-> [k \in {<<b, 0>> : b \in present} |-> w[k[1]]], defaults |-> defaults] :
        w \in [present -> WeightValues],
        defaults \in {<<>>, [b \in {"x"} |-> Q(2, 1)]} }

Tables == UNION {TablesOver(present) : present \in SUBSET BranchNames}

BranchLists == UNION {[1..n -> BranchNames] : n \in 0..MaxBranches}

Normalize(branch_ids, model_state_hash) ==
    /\ normalize_call = <<>>
    /\ weight_table' = normalize(weight_table, branch_ids, model_state_hash)
    /\ normalize_call' = [before |-> weight_table, branch_ids |-> branch_ids,
                      model_state_hash |-> model_state_hash]
    /\ UNCHANGED notNormalizeTableVars

InitNormalize ==
    /\ NotNormalizeTableIdle
    /\ weight_table \in Tables
    /\ normalize_call = <<>>

NextNormalize ==
    \E branch_ids \in BranchLists, model_state_hash \in {0, 1} :
        Normalize(branch_ids, model_state_hash)

SpecNormalize == InitNormalize /\ [][NextNormalize]_vars

Distinct(s) == \A i, j \in 1..Len(s) : s[i] = s[j] => i = j

WeightsOf(wt, branch_ids, model_state_hash) ==
    [i \in 1..Len(branch_ids) |-> get(wt, branch_ids[i], model_state_hash)]

\* C28: after normalize on distinct branches whose weights at the hash sum
\* to a positive value, their weights at the hash sum to 100 and every two of
\* them are in the ratio they were in before; when the sum is not positive
\* the table is as it was.
C28_NormalizeTo100 ==
    (normalize_call # <<>> /\ Distinct(normalize_call.branch_ids)) =>
        LET B == normalize_call.branch_ids
            h == normalize_call.model_state_hash
            old == WeightsOf(normalize_call.before, B, h)
            new == WeightsOf(weight_table, B, h)
        IN  IF QLt(QZero, QSum(old))
            THEN /\ QSum(new) = Q(100, 1)
                 /\ \A i, j \in 1..Len(B) : QMul(new[i], old[j]) = QMul(new[j], old[i])
            ELSE weight_table = normalize_call.before

\* Three distinct branches with unequal weights of positive sum, one of
\* them taken from a default, have been normalized.
C28_Witness ==
    /\ normalize_call # <<>>
    /\ Distinct(normalize_call.branch_ids)
    /\ Len(normalize_call.branch_ids) = 3
    /\ LET old == WeightsOf(normalize_call.before, normalize_call.branch_ids,
                            normalize_call.model_state_hash)
       IN  /\ QLt(QZero, QSum(old))
           /\ old[1] # old[2]
           /\ QSum(old) # Q(100, 1)
    /\ \E b \in BranchNames : <<b, 0>> \notin DOMAIN normalize_call.before.weights

(***************************************************************************)
(* A client polls the findings of one campaign while findings are recorded *)
(* with consecutive seqnos, from 0 or from 1; after each response it takes *)
(* the response's next_seqno as the since_seqno of its next request.       *)
(***************************************************************************)
\* the manager after compile has registered campaign id
WithCampaign(id) ==
    [campaigns |-> insert(<<>>, id, NewCampaignState(id)),
     findings  |-> insert(<<>>, id, <<>>),
     analytics |-> insert(<<>>, id, "Compiled"),
     next_id   |-> id + 1]

RecordFinding ==
    /\ Len(manager.findings[1]) < MaxFindings
    /\ manager' = manager_add_finding(manager, 1,
                      FindingRecord(poller.first + Len(manager.findings[1])))
    /\ UNCHANGED <<poller, tool_calls, notMcpManagerVars>>

Poll ==
    /\ poller.polls < MaxPolls
    /\ LET response == tool_beacon_findings(manager, 1, poller.since)
       IN  poller' = [poller EXCEPT
                         !.since = response.next_seqno,
                         !.received = @ \o [i \in 1..Len(response.findings) |->
                                               response.findings[i].seqno],
                         !.known = Len(manager.findings[1]),
                         !.polls = @ + 1]
    /\ UNCHANGED <<manager, tool_calls, notMcpManagerVars>>

InitPoll ==
    /\ NotMcpManagerIdle
    /\ manager = WithCampaign(1)
    /\ \E first \in {0, 1} :
          poller = [first |-> first, since |-> <<>>, received |-> <<>>, known |-> 0,
                    polls |-> 0]
    /\ tool_calls = <<>>

NextPoll == RecordFinding \/ Poll

SpecPoll == InitPoll /\ [][NextPoll]_vars

\* C29: the client has received each finding that was on record at its last
\* poll exactly once, and nothing twice.
C29_EveryFindingOnce ==
    poller # <<>> =>
        /\ \A k \in 1..poller.known :
               Len(SelectSeq(poller.received,
                             LAMBDA s : s = manager.findings[1][k].seqno)) = 1
        /\ \A i, j \in 1..Len(poller.received) :
               poller.received[i] = poller.received[j] => i = j

(***************************************************************************)
(* Concurrent abort and fuzz_start on one campaign.  Each call is a        *)
(* sequence of critical sections under the campaigns and the analytics     *)
(* mutexes of the manager; a step of a thread is one critical section.     *)
(* tool_calls.threads[t] is the position of thread t, tool_calls.aborted   *)
(* the campaigns for which abort has returned Ok.                          *)
(***************************************************************************)
Idle == [at |-> "idle"]

Advance(t, position, calls_made) ==
    [tool_calls EXCEPT !.threads[t] = position, !.made[t] = @ + calls_made]

\* get_campaign under the campaigns lock, then the phase test on the clone
FuzzStartValidate(t, id) ==
    /\ tool_calls.threads[t] = Idle
    /\ tool_calls.made[t] < MaxToolCalls
    /\ LET campaign == get_campaign(manager, id)
       IN  tool_calls' =
               IF campaign = <<>> \/ campaign[1].phase \notin {"Compiled", "DutLoaded"}
               THEN Advance(t, Idle, 1)
               ELSE Advance(t, [at |-> "fuzz_start validated", id |-> id], 1)
    /\ UNCHANGED <<manager, poller, notMcpManagerVars>>

\* set_phase, first critical section: the phase, under the campaigns lock
FuzzStartSetPhase(t) ==
    /\ tool_calls.threads[t].at = "fuzz_start validated"
    /\ LET id == tool_calls.threads[t].id
       IN  IF id \notin DOMAIN manager.campaigns
           THEN /\ tool_calls' = Advance(t, Idle, 0)
                /\ UNCHANGED manager
           ELSE /\ manager' = [manager EXCEPT !.campaigns[id].phase = "Running"]
                /\ tool_calls' = Advance(t, [at |-> "fuzz_start phase set", id |-> id], 0)
    /\ UNCHANGED <<poller, notMcpManagerVars>>

\* set_phase, second critical section: the analytics state
FuzzStartAnalytics(t) ==
    /\ tool_calls.threads[t].at = "fuzz_start phase set"
    /\ manager' = set_analytics_state(manager, tool_calls.threads[t].id, "Running")
    /\ tool_calls' = Advance(t, Idle, 0)
    /\ UNCHANGED <<poller, notMcpManagerVars>>

\* abort, first critical section: phase and stop reason
AbortSetPhase(t, id) ==
    /\ tool_calls.threads[t] = Idle
    /\ tool_calls.made[t] < MaxToolCalls
    /\ IF id \notin DOMAIN manager.campaigns
       THEN /\ tool_calls' = Advance(t, Idle, 1)
            /\ UNCHANGED manager
       ELSE /\ manager' = [manager EXCEPT !.campaigns[id].phase = "Aborted",
                                          !.campaigns[id].stop_reason = <<"UserAborted">>]
            /\ tool_calls' = Advance(t, [at |-> "abort phase set", id |-> id], 1)
    /\ UNCHANGED <<poller, notMcpManagerVars>>

\* abort, second critical section, and the return
AbortAnalytics(t) ==
    /\ tool_calls.threads[t].at = "abort phase set"
    /\ manager' = set_analytics_state(manager, tool_calls.threads[t].id, "Aborted")
    /\ tool_calls' = [Advance(t, Idle, 0) EXCEPT
                         !.aborted = @ \cup {tool_calls.threads[t].id}]
    /\ UNCHANGED <<poller, notMcpManagerVars>>

InitAbort ==
    /\ NotMcpManagerIdle
    /\ \E phase \in {"Compiled", "DutLoaded"} :
          manager = set_phase(WithCampaign(1), 1, phase).manager
    /\ poller = <<>>
    /\ tool_calls = [threads |-> [t \in Threads |-> Idle], made |-> [t \in Threads |-> 0],
                     aborted |-> {}]

NextAbort ==
    \/ \E t \in Threads, id \in 1..2 : FuzzStartValidate(t, id)
    \/ \E t \in Threads : FuzzStartSetPhase(t)
    \/ \E t \in Threads : FuzzStartAnalytics(t)
    \/ \E t \in Threads, id \in 1..2 : AbortSetPhase(t, id)
    \/ \E t \in Threads : AbortAnalytics(t)

SpecAbort == InitAbort /\ [][NextAbort]_vars

\* C30: whatever the interleaving of abort and fuzz_start calls on a
\* campaign, its stop reason is UserAborted only while its phase is Aborted,
\* and once abort has returned for it its phase is never Running.
C30_AbortedStaysAborted ==
    tool_calls # <<>> =>
        \A id \in DOMAIN manager.campaigns :
            /\ manager.campaigns[id].stop_reason = <<"UserAborted">> =>
                   manager.campaigns[id].phase = "Aborted"
            /\ id \in tool_calls.aborted => manager.campaigns[id].phase # "Running"

(***************************************************************************)
(* Concurrent set_phase and abort on one campaign, a step of a thread      *)
(* being one critical section, as above.                                   *)
(***************************************************************************)
\* set_phase, first critical section: the phase, under the campaigns lock
SetPhaseCampaigns(t, id, phase) ==
    /\ tool_calls.threads[t] = Idle
    /\ tool_calls.made[t] < MaxToolCalls
    /\ IF id \notin DOMAIN manager.campaigns
       THEN /\ tool_calls' = Advance(t, Idle, 1)
            /\ UNCHANGED manager
       ELSE /\ manager' = [manager EXCEPT !.campaigns[id].phase = phase]
            /\ tool_calls' = Advance(t, [at |-> "set_phase phase set", id |-> id,
                                         phase |-> phase], 1)
    /\ UNCHANGED <<poller, notMcpManagerVars>>

\* set_phase, second critical section: the analytics state, and the return
SetPhaseAnalytics(t) ==
    /\ tool_calls.threads[t].at = "set_phase phase set"
    /\ manager' = set_analytics_state(manager, tool_calls.threads[t].id,
                                      tool_calls.threads[t].phase)
    /\ tool_calls' = Advance(t, Idle, 0)
    /\ UNCHANGED <<poller, notMcpManagerVars>>

NextPhase ==
    \/ \E t \in Threads, id \in 1..2, phase \in CampaignPhases :
          SetPhaseCampaigns(t, id, phase)
    \/ \E t \in Threads : SetPhaseAnalytics(t)
    \/ \E t \in Threads, id \in 1..2 : AbortSetPhase(t, id)
    \/ \E t \in Threads : AbortAnalytics(t)

SpecPhase == InitAbort /\ [][NextPhase]_vars

\* C31: while no set_phase or abort call is in progress, the phase of every
\* campaign equals the state of its analytics record.
C31_PhaseMatchesAnalytics ==
    (tool_calls # <<>> /\ \A t \in Threads : tool_calls.threads[t] = Idle) =>
        \A id \in DOMAIN manager.campaigns \cap DOMAIN manager.analytics :
            manager.campaigns[id].phase = manager.analytics[id]

(***************************************************************************)
(* The pool specification: producers and consumers on one pool with the    *)
(* registered target "p".  A step of a thread is one atomic operation on a *)
(* queue or on a counter.  Every vector is offered to the pool once.       *)
(***************************************************************************)
PoolVectors == 1..MaxPoolVectors

Targets == {"p", "q"}

At(t, position) ==
    [pool_calls EXCEPT !.threads[t] = position]

Offered(t, vector, position) ==
    [pool_calls EXCEPT !.threads[t] = position, !.offered = @ \cup {vector}]

\* push_general is called
PushGeneral(t, vector) ==
    /\ pool_calls.threads[t] = Idle
    /\ vector \notin pool_calls.offered
    /\ pool_calls' = Offered(t, vector, [at |-> "push_general", vector |-> vector])
    /\ UNCHANGED <<vector_pool, notPoolVars>>

\* push_targeted is called and tries the queue of the target
PushTargeted(t, target, vector) ==
    /\ pool_calls.threads[t] = Idle
    /\ vector \notin pool_calls.offered
    /\ LET r == targeted_push(vector_pool, target, vector)
       IN  /\ vector_pool' = r.pool
           /\ pool_calls' = Offered(t, vector,
                                    [at |-> IF r.to = "pushed" THEN "pushed"
                                            ELSE "push_general",
                                     vector |-> vector])
    /\ UNCHANGED notPoolVars

\* push_general: the push on the general queue; false is returned at once
GeneralPush(t) ==
    /\ pool_calls.threads[t].at = "push_general"
    /\ LET vector == pool_calls.threads[t].vector
           r == general_push(vector_pool, vector)
       IN  /\ vector_pool' = r.pool
           /\ pool_calls' = IF r.ok THEN At(t, [at |-> "pushed", vector |-> vector])
                            ELSE [At(t, Idle) EXCEPT !.rejected = @ \cup {vector}]
    /\ UNCHANGED notPoolVars

\* pushed.fetch_add(1), and true is returned
CountPush(t) ==
    /\ pool_calls.threads[t].at = "pushed"
    /\ vector_pool' = [vector_pool EXCEPT !.pushed = @ + 1]
    /\ pool_calls' = [At(t, Idle) EXCEPT
                         !.accepted = @ \cup {pool_calls.threads[t].vector}]
    /\ UNCHANGED notPoolVars

\* pop_general is called
PopGeneral(t) ==
    /\ pool_calls.threads[t] = Idle
    /\ pool_calls' = At(t, [at |-> "pop_general"])
    /\ UNCHANGED <<vector_pool, notPoolVars>>

\* pop_targeted is called and tries the queue of the target
PopTargeted(t, target) ==
    /\ pool_calls.threads[t] = Idle
    /\ LET r == targeted_pop(vector_pool, target)
       IN  /\ vector_pool' = r.pool
           /\ pool_calls' = IF r.result # <<>>
                            THEN At(t, [at |-> "popped", vector |-> r.result[1]])
                            ELSE At(t, [at |-> "pop_general"])
    /\ UNCHANGED notPoolVars

\* pop_general: the pop on the general queue; None is returned at once
GeneralPop(t) ==
    /\ pool_calls.threads[t].at = "pop_general"
    /\ LET r == general_pop(vector_pool)
       IN  /\ vector_pool' = r.pool
           /\ pool_calls' = IF r.result # <<>>
                            THEN At(t, [at |-> "popped", vector |-> r.result[1]])
                            ELSE At(t, Idle)
    /\ UNCHANGED notPoolVars

\* popped.fetch_add(1), and the vector is returned
CountPop(t) ==
    /\ pool_calls.threads[t].at = "popped"
    /\ vector_pool' = [vector_pool EXCEPT !.popped = @ + 1]
    /\ pool_calls' = [At(t, Idle) EXCEPT
                         !.returned = Append(@, pool_calls.threads[t].vector)]
    /\ UNCHANGED notPoolVars

InitPool ==
    /\ NotPoolIdle
    /\ \E general_capacity \in 1..MaxCapacity :
          vector_pool = register_target(NewVectorPool(general_capacity), "p")
    /\ pool_calls = [threads |-> [t \in Threads |-> Idle], offered |-> {},
                     accepted |-> {}, rejected |-> {}, returned |-> <<>>]

NextPool ==
    \/ \E t \in Threads, vector \in PoolVectors : PushGeneral(t, vector)
    \/ \E t \in Threads, target \in Targets, vector \in PoolVectors :
          PushTargeted(t, target, vector)
    \/ \E t \in Threads : GeneralPush(t)
    \/ \E t \in Threads : CountPush(t)
    \/ \E t \in Threads : PopGeneral(t)
    \/ \E t \in Threads, target \in Targets : PopTargeted(t, target)
    \/ \E t \in Threads : GeneralPop(t)
    \/ \E t \in Threads : CountPop(t)

SpecPool == InitPool /\ [][NextPool]_vars

\* C32: in every state of the pool total_popped is at most total_pushed.
C32_PoppedAtMostPushed ==
    vector_pool # <<>> => vector_pool.popped <= vector_pool.pushed

TimesReturned(vector) == Len(SelectSeq(pool_calls.returned, LAMBDA v : v = vector))

Drained ==
    /\ is_empty(vector_pool)
    /\ \A t \in Threads : pool_calls.threads[t] = Idle

\* C33: a pop returns only vectors that were offered to the pool, none more
\* than once and none whose push returned false; and when the pool has been
\* drained every vector whose push returned true has been returned by
\* exactly one pop.
C33_PushedOnceReturnedOnce ==
    pool_calls # <<>> =>
        /\ \A i \in 1..Len(pool_calls.returned) :
               /\ pool_calls.returned[i] \in pool_calls.offered
               /\ pool_calls.returned[i] \notin pool_calls.rejected
               /\ TimesReturned(pool_calls.returned[i]) = 1
        /\ Drained => \A vector \in pool_calls.accepted : TimesReturned(vector) = 1

\* The pool is drained after two threads have pushed and popped: a vector
\* went through the target queue, one through the general queue, and one
\* was refused by the full general queue.
C33_Witness ==
    /\ pool_calls # <<>>
    /\ Drained
    /\ Cardinality(pool_calls.accepted) = 2
    /\ pool_calls.rejected # {}
    /\ Len(pool_calls.returned) = 2

(***************************************************************************)
(* The locking of CampaignManager.  An operation is the list of its lock   *)
(* and unlock events in program order: a guard taken in a statement, or in *)
(* the scrutinee of an if let, is dropped at the end of that statement; a  *)
(* guard bound by let is dropped at the end of its block.                  *)
(***************************************************************************)
MutexNames == {"campaigns", "next_id", "findings", "coverage", "analytics"}

Locked(mutex) == <<[do |-> "lock", mutex |-> mutex], [do |-> "unlock", mutex |-> mutex]>>

\* compile: the limit test returns after the first section
compile_locking(within_limits) ==
    IF within_limits
    THEN Locked("campaigns") \o Locked("next_id") \o Locked("campaigns")
         \o Locked("findings") \o Locked("coverage") \o Locked("analytics")
    ELSE Locked("campaigns")

get_campaign_locking == Locked("campaigns")

\* set_phase with the analytics lock taken inside the campaigns block
set_phase_locking_nested(found) ==
    IF found
    THEN <<[do |-> "lock", mutex |-> "campaigns"], [do |-> "lock", mutex |-> "analytics"],
           [do |-> "unlock", mutex |-> "analytics"], [do |-> "unlock", mutex |-> "campaigns"]>>
    ELSE Locked("campaigns")

\* set_phase and abort: NotFound returns from inside the campaigns block
set_phase_locking(found) ==
    IF found THEN Locked("campaigns") \o Locked("analytics") ELSE Locked("campaigns")

abort_locking(found) ==
    IF found THEN Locked("campaigns") \o Locked("analytics") ELSE Locked("campaigns")

add_finding_locking == Locked("findings") \o Locked("campaigns")

get_findings_locking == Locked("findings")

update_coverage_locking == Locked("campaigns") \o Locked("coverage")

get_coverage_locking == Locked("coverage")

get_analytics_locking == Locked("analytics")

remove_campaign_locking ==
    Locked("campaigns") \o Locked("findings") \o Locked("coverage") \o Locked("analytics")

ManagerOperations ==
    {compile_locking(within_limits) : within_limits \in BOOLEAN}
    \cup {set_phase_locking(found) : found \in BOOLEAN}
    \cup {abort_locking(found) : found \in BOOLEAN}
    \cup {get_campaign_locking, add_finding_locking, get_findings_locking,
          update_coverage_locking, get_coverage_locking, get_analytics_locking,
          remove_campaign_locking}

HeldBy(t) == {mutex \in MutexNames : manager_locks.owner[mutex] = t}

NextEvent(t) == Head(manager_locks.threads[t])

\* a thread calls an operation of the manager
CallOperation(t, events) ==
    /\ manager_locks.threads[t] = <<>>
    /\ manager_locks' = [manager_locks EXCEPT !.threads[t] = events]
    /\ UNCHANGED notLockingVars

\* Mutex::lock: the caller waits until the mutex is free
AcquireLock(t) ==
    /\ manager_locks.threads[t] # <<>>
    /\ NextEvent(t).do = "lock"
    /\ manager_locks.owner[NextEvent(t).mutex] = 0
    /\ manager_locks' = [manager_locks EXCEPT !.threads[t] = Tail(@),
                                              !.owner[NextEvent(t).mutex] = t]
    /\ UNCHANGED notLockingVars

\* the guard is dropped
ReleaseLock(t) ==
    /\ manager_locks.threads[t] # <<>>
    /\ NextEvent(t).do = "unlock"
    /\ manager_locks' = [manager_locks EXCEPT !.threads[t] = Tail(@),
                                              !.owner[NextEvent(t).mutex] = 0]
    /\ UNCHANGED notLockingVars

InitLocking ==
    /\ NotLockingIdle
    /\ manager_locks = [owner |-> [mutex \in MutexNames |-> 0],
                        threads |-> [t \in Threads |-> <<>>]]

NextLocking ==
    \/ \E t \in Threads, events \in ManagerOperations : CallOperation(t, events)
    \/ \E t \in Threads : AcquireLock(t)
    \/ \E t \in Threads : ReleaseLock(t)

SpecLocking == InitLocking /\ [][NextLocking]_vars

Waiting(t) ==
    /\ manager_locks.threads[t] # <<>>
    /\ NextEvent(t).do = "lock"

CanStep(t) ==
    /\ manager_locks.threads[t] # <<>>
    /\ Waiting(t) => manager_locks.owner[NextEvent(t).mutex] = 0

\* C34: no operation of the manager waits for a lock while it holds
\* another, and whenever an operation is under way some operation can take
\* its next step.
C34_NoHoldAndWait ==
    manager_locks # <<>> =>
        /\ \A t \in Threads : Waiting(t) => HeldBy(t) = {}
        /\ (\E t \in Threads : manager_locks.threads[t] # <<>>)
               => \E t \in Threads : CanStep(t)

\* set_phase holds the campaigns lock of a found campaign while compile,
\* past its next_id section, waits for the same lock.
C34_Witness ==
    /\ manager_locks # <<>>
    /\ \E t, u \in Threads :
          /\ HeldBy(t) = {"campaigns"}
          /\ manager_locks.threads[t] = Tail(set_phase_locking(TRUE))
          /\ Waiting(u)
          /\ NextEvent(u).mutex = "campaigns"
          /\ Len(manager_locks.threads[u]) = 8

(***************************************************************************)
(* Epoch boundaries of the coordinator.                                    *)
(***************************************************************************)
TimesIn(signals, signal) == Len(SelectSeq(signals, LAMBDA s : s = signal))

ProcessedSignals == [k \in 1..Len(processed) |-> processed[k].ev]

\* the step processed one epoch, which took every buffered signal
EpochProcessed(buffered) ==
    /\ coordinator'.epoch = coordinator.epoch + 1
    /\ coordinator'.pending_signals = <<>>
    /\ Len(processed') = Len(processed) + Len(buffered)
    /\ \A k \in 1..Len(buffered) : processed'[Len(processed) + k].epoch = coordinator.epoch

\* C35: feed_signal processes an epoch exactly when the buffer, with the new
\* signal, has epoch_size signals, and flush exactly when the buffer is not
\* empty; an epoch takes every buffered signal and adds one to the epoch
\* counter; every signal fed is either buffered or was processed in one
\* epoch; a flush on an empty buffer leaves coordinator and weights as they
\* are.
C35_EpochBoundaries ==
    [][/\ arrived' # arrived =>
            LET call == arrived'[Len(arrived')]
                buffered == IF call.call = "feed_signal"
                            THEN Append(coordinator.pending_signals, call.signal)
                            ELSE coordinator.pending_signals
                due == IF call.call = "feed_signal"
                       THEN Len(buffered) >= coordinator.config.epoch_size
                       ELSE buffered # <<>>
            IN  /\ due => EpochProcessed(buffered)
                /\ ~due => /\ coordinator' = [coordinator EXCEPT !.pending_signals = buffered]
                           /\ weight_table' = weight_table
                           /\ processed' = processed
                /\ \A signal \in Events :
                      TimesIn(FedSignals', signal) =
                          TimesIn(ProcessedSignals', signal)
                          + TimesIn(coordinator'.pending_signals, signal)
       /\ arrived' = arrived => coordinator' = coordinator]_vars

\* With epoch_size 2: the first signal is buffered, the second fills the
\* epoch, and the flush that follows finds the buffer empty.
C35_Witness ==
    /\ coordinator # <<>>
    /\ coordinator.config.epoch_size = 2
    /\ Len(arrived) = 3
    /\ arrived[3].call = "flush"
    /\ Len(FedSignals) = 2
    /\ coordinator.epoch = 1
    /\ Len(processed) = 2
    /\ processed[2].epoch = 0

\* C36: no two signal events emitted by the engine carry the same
\* (thread_id, local_step).
C36_SignalKeysDistinct ==
    engine # <<>> =>
        \A i, j \in 1..Len(engine.signals) :
            (/\ engine.signals[i].thread_id = engine.signals[j].thread_id
             /\ engine.signals[i].local_step = engine.signals[j].local_step) => i = j

\* C37: after an epoch of the coordinator every state-conditioned weight of
\* the table is 0 or at least min_weight.
C37_WeightsZeroOrAboveMin ==
    [][coordinator'.epoch = coordinator.epoch + 1 =>
          \A k \in DOMAIN weight_table'.weights :
              \/ weight_table'.weights[k] = QZero
              \/ QLe(coordinator.config.decay.min_weight, weight_table'.weights[k])]_vars

\* C38: a Branch decision does not select an alternative whose weight is
\* exactly 0 while another alternative of the Branch has a positive weight.
C38_ZeroWeightNotSelected ==
    [][Len(decisions') = Len(decisions) + 1 =>
          LET decision == decisions'[Len(decisions')]
              alternatives == NodeAt(graph, Top(engine)).alternatives
          IN  get(weight_table, decision.branch_id, decision.model_hash) = QZero =>
                  \A i \in 1..Len(alternatives) :
                      QLe(get(weight_table, alternatives[i].id, decision.model_hash),
                          QZero)]_vars

(***************************************************************************)
(* strategy.rs: the strategy stack.  A strategy is represented by its      *)
(* name; the bottom of the stack is its first element.                     *)
(***************************************************************************)
NewStrategyStack(base, depth_limit) == [stack |-> <<base>>, depth_limit |-> depth_limit]

\* Vec::remove(1)
RemoveSecond(stack) == <<stack[1]>> \o SubSeq(stack, 3, Len(stack))

push(s, strategy) ==
    LET kept == IF Len(s.stack) >= s.depth_limit /\ Len(s.stack) > 1
                THEN RemoveSecond(s.stack) ELSE s.stack
    IN  [s EXCEPT !.stack = Append(kept, strategy)]

pop(s) ==
    IF Len(s.stack) > 1
    THEN [result |-> <<s.stack[Len(s.stack)]>>,
          stack |-> [s EXCEPT !.stack = SubSeq(@, 1, Len(@) - 1)]]
    ELSE [result |-> <<>>, stack |-> s]

StrategyNames == {"directed", "replay", "targeted"}

StackPush(strategy) ==
    /\ strategy_stack' = [stack |-> push(strategy_stack.stack, strategy), popped |-> <<>>]
    /\ UNCHANGED notStrategyVars

StackPop ==
    /\ LET r == pop(strategy_stack.stack)
       IN  strategy_stack' = [stack |-> r.stack, popped |-> r.result]
    /\ UNCHANGED notStrategyVars

InitStack ==
    /\ NotStrategyIdle
    /\ \E depth_limit \in 1..MaxDepthLimit :
          strategy_stack = [stack |-> NewStrategyStack("pseudo_random", depth_limit),
                            popped |-> <<>>]

NextStack ==
    \/ \E strategy \in StrategyNames : StackPush(strategy)
    \/ StackPop

SpecStack == InitStack /\ [][NextStack]_vars

\* C39: the strategy stack is never empty, its bottom element is the base
\* strategy, and its depth is at most its depth limit.
C39_StackWithinLimit ==
    strategy_stack # <<>> =>
        /\ strategy_stack.stack.stack # <<>>
        /\ strategy_stack.stack.stack[1] = "pseudo_random"
        /\ Len(strategy_stack.stack.stack) <= strategy_stack.stack.depth_limit

(***************************************************************************)
(* The fracture tree of a pipeline run: every subspace fracture_by_variable*)
(* returned to parallel_fracture_recursive, in the order of the recursion. *)
(***************************************************************************)
RECURSIVE created_subspaces(_, _, _, _, _)
RECURSIVE created_below(_, _, _)

created_subspaces(p, depth, fixed, base_clauses, stage_id) ==
    IF depth >= Len(p.variables) THEN <<>>
    ELSE LET f == fracture_by_variable(p.encoded, p.variables[depth + 1], fixed,
                                       base_clauses, stage_id)
         IN  IF f.err THEN <<>>
             ELSE f.subspaces \o created_below(p, depth, f.subspaces)

created_below(p, depth, subspaces) ==
    IF subspaces = <<>> THEN <<>>
    ELSE LET subspace == Head(subspaces)
         IN  (IF is_sat(p.encoded, p.constraint_clauses, subspace.fixing_clauses)
              THEN created_subspaces(p, depth + 1, subspace.fixed,
                                     subspace.fixing_clauses, subspace.stage_id)
              ELSE <<>>)
             \o created_below(p, depth, Tail(subspaces))

\* C40: the subspaces of the fracture tree of a run have pairwise different
\* stage ids.
C40_StageIdsDistinct ==
    Fractured =>
        LET tree == created_subspaces(pipeline[1], 0, <<>>, <<>>, 0)
        IN  \A i, j \in 1..Len(tree) : tree[i].stage_id = tree[j].stage_id => i = j
=============================================================================
